---- MODULE Spec2Model ----
(***************************************************************************)
(* A model of the Synacor virtual machine of src/src/emulator.rs: the Vm   *)
(* aggregate, its fetch/execute engine (step, run, feed) and the drivers'  *)
(* calls on it.  Words are unsigned 16-bit integers, characters are their  *)
(* Unicode code points, and the 32768-cell memory is kept as the function  *)
(* of its non-zero cells (every other cell reads 0, as vec![0; MEM_SIZE]). *)
(***************************************************************************)
EXTENDS Integers, Sequences, FiniteSets, TLC

VARIABLES memory, registers, stack, ip, pc, state, output_buffer, input_buffer,
          messages, traced_opcodes, trace_buffer, called_patched_fn, enable_patching,
          in_run, outcome, lastOp, lastArg, twin, ret, saved_states, breakpoints,
          dis

\* The fields of the Vm struct.
vmvars == <<memory, registers, stack, ip, pc, state, output_buffer, input_buffer,
            messages, traced_opcodes, trace_buffer, called_patched_fn, enable_patching>>

\* in_run: the caller is inside Vm::run's loop.  outcome, lastOp, lastArg: how
\* the last engine call (step, feed, run) ended ("ok", "err", "panic"), which
\* call it was ("load" before the first), and the line the last successful
\* feed took in (or the name or address the last debugger command was given).
\* twin: a second Vm the caller holds (a clone), with how the last call on it
\* ended.  ret: what the last call returned or printed.  saved_states: the
\* snapshots the debugger keeps, by name.  breakpoints: the addresses at
\* which step stops.  dis: the locals of a disassemble_function call in
\* progress (its queue, explored and instructions) and how it ended.
vars == <<memory, registers, stack, ip, pc, state, output_buffer, input_buffer,
          messages, traced_opcodes, trace_buffer, called_patched_fn, enable_patching,
          in_run, outcome, lastOp, lastArg, twin, ret, saved_states, breakpoints,
          dis>>

----------------------------------------------------------------------------
\* Program constants and bounds

MEM_SIZE == 32768

\* Largest number of executed instructions explored (caps pc, and with it the
\* stack, the output and the messages).
MaxPc == 5

\* Longest line given to feed.
MaxLine == 2

U16 == 65536

NEWLINE == 10

\* Characters a line is made of: 'A' and U+10041 (a code above 65535).
Chars == {65, 65601}

Lines == UNION {[1..n -> Chars] : n \in 0..MaxLine}

----------------------------------------------------------------------------
\* Val (the value codec)

Num(n) == [k |-> "Num", v |-> n]
Reg(r) == [k |-> "Reg", v |-> r]
Invalid == [k |-> "Invalid", v |-> 0]

Val_new(v) ==
  IF v <= 32767 THEN Num(v)
  ELSE IF v <= 32775 THEN Reg(v - 32768)
  ELSE Invalid

----------------------------------------------------------------------------
\* Opcode

OpNames == <<"Halt", "Set", "Push", "Pop", "Eq", "Gt", "Jmp", "Jt", "Jf", "Add",
             "Mult", "Mod", "And", "Or", "Not", "Rmem", "Wmem", "Call", "Ret",
             "Out", "In", "Noop">>

NoInstr == [op |-> "none", args |-> <<>>]

size(instr) ==
  CASE instr.op \in {"Halt", "Ret", "Noop"} -> 1
    [] instr.op \in {"Push", "Pop", "Jmp", "Call", "Out", "In"} -> 2
    [] instr.op \in {"Set", "Jt", "Jf", "Not", "Rmem", "Wmem"} -> 3
    [] instr.op \in {"Eq", "Gt", "Add", "Mult", "Mod", "And", "Or"} -> 4

\* The tag of an instruction (its index in the enum).
tag(instr) == CHOOSE t \in 0..21 : OpNames[t + 1] = instr.op

RECURSIVE Pow2(_)
Pow2(n) == IF n = 0 THEN 1 ELSE 2 * Pow2(n - 1)

\* (variant) the discriminant taken to be the index of the opcode
discriminant_is_tag(instr) == tag(instr)

\* #[repr(u32)] discriminants: 1 << tag.
discriminant(instr) == Pow2(tag(instr))

----------------------------------------------------------------------------
\* Machine arithmetic on words

RECURSIVE BitAndN(_, _, _)
BitAndN(x, y, n) ==
  IF n = 0 THEN 0
  ELSE (x % 2) * (y % 2) + 2 * BitAndN(x \div 2, y \div 2, n - 1)

RECURSIVE BitOrN(_, _, _)
BitOrN(x, y, n) ==
  IF n = 0 THEN 0
  ELSE (IF x % 2 = 1 \/ y % 2 = 1 THEN 1 ELSE 0)
       + 2 * BitOrN(x \div 2, y \div 2, n - 1)

\* &, | and ! on u16
BitAnd(x, y) == BitAndN(x, y, 16)
BitOr(x, y) == BitOrN(x, y, 16)
BitNot(x) == (U16 - 1) - x

----------------------------------------------------------------------------
\* Memory: a zero-initialised array of MEM_SIZE words

Rd(mem, a) == IF a \in DOMAIN mem THEN mem[a] ELSE 0

Wr(mem, a, w) ==
  IF w = 0 THEN [x \in (DOMAIN mem) \ {a} |-> mem[x]]
  ELSE [x \in (DOMAIN mem) \cup {a} |-> IF x = a THEN w ELSE mem[x]]

\* load_program_from_mem: the words of program copied to memory[0..len)
load_program_from_mem(mem, program) ==
  [x \in ((DOMAIN mem) \ (0..(Len(program) - 1)))
         \cup {i - 1 : i \in {j \in 1..Len(program) : program[j] # 0}} |->
     IF x < Len(program) THEN program[x + 1] ELSE mem[x]]

----------------------------------------------------------------------------
\* The Vm as a value

VM == [memory |-> memory, registers |-> registers, stack |-> stack, ip |-> ip,
       pc |-> pc, state |-> state, output_buffer |-> output_buffer,
       input_buffer |-> input_buffer, messages |-> messages,
       traced_opcodes |-> traced_opcodes, trace_buffer |-> trace_buffer,
       called_patched_fn |-> called_patched_fn, enable_patching |-> enable_patching]

\* Vm::new()
Vm_new ==
  [memory |-> [x \in {} |-> 0], registers |-> [r \in 0..7 |-> 0], stack |-> <<>>, ip |-> 0,
   pc |-> 0, state |-> "Running", output_buffer |-> <<>>, input_buffer |-> <<>>,
   messages |-> <<>>, traced_opcodes |-> 0, trace_buffer |-> <<>>,
   called_patched_fn |-> FALSE, enable_patching |-> FALSE]

Ok(v) == [res |-> "ok", vm |-> v]
Err(v) == [res |-> "err", vm |-> v]
Panic(v) == [res |-> "panic", vm |-> v]

\* Option::None of get_value / get_register
None == -1

get_value(v, value) ==
  CASE value.k = "Num" -> value.v
    [] value.k = "Reg" -> v.registers[value.v]
    [] value.k = "Invalid" -> None

get_register(value) ==
  CASE value.k = "Num" -> None
    [] value.k = "Reg" -> value.v
    [] value.k = "Invalid" -> None

\* Vm::fetch: the instruction decoded at ip; indexing past the memory panics.
fetch(v, at) ==
  IF at >= MEM_SIZE THEN [res |-> "panic", instr |-> NoInstr]
  ELSE LET t == Rd(v.memory, at) IN
    IF t > 21 THEN [res |-> "err", instr |-> NoInstr]
    ELSE LET n == size([op |-> OpNames[t + 1], args |-> <<>>]) - 1 IN
      IF at + n >= MEM_SIZE THEN [res |-> "panic", instr |-> NoInstr]
      ELSE [res |-> "ok",
            instr |-> [op |-> OpNames[t + 1],
                       args |-> [i \in 1..n |-> Val_new(Rd(v.memory, at + i))]]]

----------------------------------------------------------------------------
\* Vm::execute, one operator per arm of its match.  v is the Vm with ip
\* already set to next_instruction_ptr; a is the operand list.  An expect()
\* or an index out of range panics with the Vm as it is at that point.

\* (variant) Halt that does not stop the Vm
exec_Halt_noop(v, a) == Ok(v)

exec_Halt(v, a) == Ok([v EXCEPT !.state = "Halted"])

exec_Set(v, a) ==
  LET val == get_value(v, a[2])
      reg == get_register(a[1])
  IN IF val = None \/ reg = None THEN Panic(v)
     ELSE Ok([v EXCEPT !.registers[reg] = val])

exec_Push(v, a) ==
  LET val == get_value(v, a[1])
  IN IF val = None THEN Panic(v)
     ELSE Ok([v EXCEPT !.stack = Append(v.stack, val)])

exec_Pop(v, a) ==
  IF v.stack = <<>> THEN Panic(v)
  ELSE LET val == v.stack[Len(v.stack)]
           v1 == [v EXCEPT !.stack = SubSeq(v.stack, 1, Len(v.stack) - 1)]
           reg == get_register(a[1])
       IN IF reg = None THEN Panic(v1)
          ELSE Ok([v1 EXCEPT !.registers[reg] = val])

exec_Eq(v, a) ==
  LET val_b == get_value(v, a[2])
      val_c == get_value(v, a[3])
      reg == get_register(a[1])
  IN IF val_b = None \/ val_c = None \/ reg = None THEN Panic(v)
     ELSE Ok([v EXCEPT !.registers[reg] = IF val_b = val_c THEN 1 ELSE 0])

exec_Gt(v, a) ==
  LET val_b == get_value(v, a[2])
      val_c == get_value(v, a[3])
      reg == get_register(a[1])
  IN IF val_b = None \/ val_c = None \/ reg = None THEN Panic(v)
     ELSE Ok([v EXCEPT !.registers[reg] = IF val_b > val_c THEN 1 ELSE 0])

\* (variant) Jmp that decodes its target before jumping
exec_Jmp_checked(v, a) ==
  LET t == get_value(v, a[1])
  IN IF t = None THEN Panic(v)
     ELSE IF fetch(v, t).res # "ok" THEN Panic(v)
     ELSE Ok([v EXCEPT !.ip = t])

exec_Jmp(v, a) ==
  LET t == get_value(v, a[1])
  IN IF t = None THEN Panic(v) ELSE Ok([v EXCEPT !.ip = t])

exec_Jt(v, a) ==
  LET c == get_value(v, a[1])
      t == get_value(v, a[2])
  IN IF c = None THEN Panic(v)
     ELSE IF c # 0
          THEN (IF t = None THEN Panic(v) ELSE Ok([v EXCEPT !.ip = t]))
          ELSE Ok(v)

exec_Jf(v, a) ==
  LET c == get_value(v, a[1])
      t == get_value(v, a[2])
  IN IF c = None THEN Panic(v)
     ELSE IF c = 0
          THEN (IF t = None THEN Panic(v) ELSE Ok([v EXCEPT !.ip = t]))
          ELSE Ok(v)

\* val_b + val_c is a u16 addition: past 65535 it panics in a build with
\* overflow checks (oc) and wraps in one without.
\* (variant) Add without the reduction modulo 32768
exec_Add_no_mod(v, a, oc) ==
  LET val_b == get_value(v, a[2])
      val_c == get_value(v, a[3])
      reg == get_register(a[1])
  IN IF val_b = None \/ val_c = None \/ reg = None THEN Panic(v)
     ELSE IF val_b + val_c >= U16 /\ oc THEN Panic(v)
     ELSE Ok([v EXCEPT !.registers[reg] = (val_b + val_c) % U16])

exec_Add(v, a, oc) ==
  LET val_b == get_value(v, a[2])
      val_c == get_value(v, a[3])
      reg == get_register(a[1])
  IN IF val_b = None \/ val_c = None \/ reg = None THEN Panic(v)
     ELSE IF val_b + val_c >= U16 /\ oc THEN Panic(v)
     ELSE Ok([v EXCEPT !.registers[reg] = ((val_b + val_c) % U16) % 32768])

exec_Mult(v, a) ==
  LET val_b == get_value(v, a[2])
      val_c == get_value(v, a[3])
      reg == get_register(a[1])
  IN IF val_b = None \/ val_c = None \/ reg = None THEN Panic(v)
     ELSE Ok([v EXCEPT !.registers[reg] = ((val_b * val_c) % U16) % 32768])

exec_Mod(v, a) ==
  LET val_b == get_value(v, a[2])
      val_c == get_value(v, a[3])
      reg == get_register(a[1])
  IN IF val_b = None \/ val_c = None \/ reg = None THEN Panic(v)
     ELSE IF val_c = 0 THEN Panic(v)
     ELSE Ok([v EXCEPT !.registers[reg] = val_b % val_c])

exec_And(v, a) ==
  LET val_b == get_value(v, a[2])
      val_c == get_value(v, a[3])
      reg == get_register(a[1])
  IN IF val_b = None \/ val_c = None \/ reg = None THEN Panic(v)
     ELSE Ok([v EXCEPT !.registers[reg] = BitAnd(val_b, val_c) % 32768])

exec_Or(v, a) ==
  LET val_b == get_value(v, a[2])
      val_c == get_value(v, a[3])
      reg == get_register(a[1])
  IN IF val_b = None \/ val_c = None \/ reg = None THEN Panic(v)
     ELSE Ok([v EXCEPT !.registers[reg] = BitOr(val_b, val_c) % 32768])

\* (variant) Not that keeps all 16 bits of the complement
exec_Not_unmasked(v, a) ==
  LET val_b == get_value(v, a[2])
      reg == get_register(a[1])
  IN IF val_b = None \/ reg = None THEN Panic(v)
     ELSE Ok([v EXCEPT !.registers[reg] = BitNot(val_b)])

exec_Not(v, a) ==
  LET val_b == get_value(v, a[2])
      reg == get_register(a[1])
  IN IF val_b = None \/ reg = None THEN Panic(v)
     ELSE Ok([v EXCEPT !.registers[reg] = BitNot(val_b) % 32768])

exec_Rmem(v, a) ==
  LET addr == get_value(v, a[2])
      reg == get_register(a[1])
  IN IF addr = None \/ reg = None THEN Panic(v)
     ELSE IF addr >= MEM_SIZE THEN Panic(v)
     ELSE Ok([v EXCEPT !.registers[reg] = Rd(v.memory, addr)])

\* (variant) Wmem that clears the cell after the one it writes
exec_Wmem_two_cells(v, a) ==
  LET val == get_value(v, a[2])
      addr == get_value(v, a[1])
  IN IF val = None \/ addr = None THEN Panic(v)
     ELSE IF addr >= MEM_SIZE THEN Panic(v)
     ELSE Ok([v EXCEPT !.memory = Wr(Wr(v.memory, addr, val), (addr + 1) % MEM_SIZE, 0)])

exec_Wmem(v, a) ==
  LET val == get_value(v, a[2])
      addr == get_value(v, a[1])
  IN IF val = None \/ addr = None THEN Panic(v)
     ELSE IF addr >= MEM_SIZE THEN Panic(v)
     ELSE Ok([v EXCEPT !.memory = Wr(v.memory, addr, val)])

\* the native stand-in for the function at 2125
patched_2125(v) ==
  LET reg0 == v.registers[0]
      reg1 == v.registers[1]
      reg2 == BitNot(BitAnd(reg0, reg1))
  IN [v EXCEPT !.registers[0] = BitAnd(BitOr(reg0, reg1), reg2),
               !.pc = v.pc + 9]

\* (variant) Call that pushes its own address instead of the next one
exec_Call_push_own(v, a) ==
  LET addr == get_value(v, a[1])
  IN IF addr = None THEN Panic(v)
     ELSE IF addr = 6027 THEN Panic(v)
     ELSE IF v.enable_patching /\ addr = 3
          THEN Ok([v EXCEPT !.registers[0] = 20, !.pc = v.pc + 2,
                            !.called_patched_fn = TRUE])
     ELSE IF v.enable_patching /\ addr = 2125
          THEN Ok([patched_2125(v) EXCEPT !.called_patched_fn = TRUE])
     ELSE Ok([v EXCEPT !.stack = Append(v.stack, (v.ip - 2) % U16), !.ip = addr])

exec_Call(v, a) ==
  LET addr == get_value(v, a[1])
  IN IF addr = None THEN Panic(v)
     ELSE IF addr = 6027 THEN Panic(v)
     ELSE IF v.enable_patching /\ addr = 3
          THEN Ok([v EXCEPT !.registers[0] = 20, !.pc = v.pc + 2,
                            !.called_patched_fn = TRUE])
     ELSE IF v.enable_patching /\ addr = 2125
          THEN Ok([patched_2125(v) EXCEPT !.called_patched_fn = TRUE])
     ELSE Ok([v EXCEPT !.stack = Append(v.stack, v.ip % U16), !.ip = addr])

\* (variant) a Ret on an empty stack fails like a Pop on an empty stack
exec_Ret_empty_panics(v, a) ==
  IF v.stack # <<>>
  THEN Ok([v EXCEPT !.ip = v.stack[Len(v.stack)],
                    !.stack = SubSeq(v.stack, 1, Len(v.stack) - 1)])
  ELSE Panic(v)

exec_Ret(v, a) ==
  IF v.stack # <<>>
  THEN Ok([v EXCEPT !.ip = v.stack[Len(v.stack)],
                    !.stack = SubSeq(v.stack, 1, Len(v.stack) - 1)])
  ELSE Ok([v EXCEPT !.state = "Halted"])

\* (variant) Out that keeps the whole word instead of its low 8 bits
exec_Out_whole_word(v, a) ==
  LET c == get_value(v, a[1])
  IN IF c = None THEN Panic(v)
     ELSE Ok([v EXCEPT !.output_buffer = Append(v.output_buffer, c)])

\* c as u8 as char
exec_Out(v, a) ==
  LET c == get_value(v, a[1])
  IN IF c = None THEN Panic(v)
     ELSE Ok([v EXCEPT !.output_buffer = Append(v.output_buffer, c % 256)])

\* In that flushes no message when the output buffer is empty
exec_In_skip_empty_flush(v, a) ==
  LET reg == get_register(a[1])
  IN IF reg = None THEN Panic(v)
     ELSE IF v.input_buffer # <<>>
          THEN Ok([v EXCEPT !.registers[reg] = Head(v.input_buffer) % U16,
                            !.input_buffer = Tail(v.input_buffer)])
          ELSE Ok([v EXCEPT !.messages = IF v.output_buffer = <<>> THEN v.messages
                                         ELSE Append(v.messages, v.output_buffer),
                            !.output_buffer = <<>>,
                            !.state = "WaitingForInput",
                            !.ip = v.ip - 2])

\* In that takes the newest character of the queue (pop_back)
exec_In_pop_back(v, a) ==
  LET reg == get_register(a[1])
      n == Len(v.input_buffer)
  IN IF reg = None THEN Panic(v)
     ELSE IF v.input_buffer # <<>>
          THEN Ok([v EXCEPT !.registers[reg] = v.input_buffer[n] % U16,
                            !.input_buffer = SubSeq(v.input_buffer, 1, n - 1)])
          ELSE Ok([v EXCEPT !.messages = Append(v.messages, v.output_buffer),
                            !.output_buffer = <<>>,
                            !.state = "WaitingForInput",
                            !.ip = v.ip - 2])

\* In that does not rewind ip when it suspends
exec_In_no_rewind(v, a) ==
  LET reg == get_register(a[1])
  IN IF reg = None THEN Panic(v)
     ELSE IF v.input_buffer # <<>>
          THEN Ok([v EXCEPT !.registers[reg] = Head(v.input_buffer) % U16,
                            !.input_buffer = Tail(v.input_buffer)])
          ELSE Ok([v EXCEPT !.messages = Append(v.messages, v.output_buffer),
                            !.output_buffer = <<>>,
                            !.state = "WaitingForInput"])

\* In that keeps the output buffer when it suspends
exec_In_keep_buffer(v, a) ==
  LET reg == get_register(a[1])
  IN IF reg = None THEN Panic(v)
     ELSE IF v.input_buffer # <<>>
          THEN Ok([v EXCEPT !.registers[reg] = Head(v.input_buffer) % U16,
                            !.input_buffer = Tail(v.input_buffer)])
          ELSE Ok([v EXCEPT !.messages = Append(v.messages, v.output_buffer),
                            !.state = "WaitingForInput",
                            !.ip = v.ip - 2])

\* c as u16 keeps the low 16 bits of the character's code
exec_In(v, a) ==
  LET reg == get_register(a[1])
  IN IF reg = None THEN Panic(v)
     ELSE IF v.input_buffer # <<>>
          THEN Ok([v EXCEPT !.registers[reg] = Head(v.input_buffer) % U16,
                            !.input_buffer = Tail(v.input_buffer)])
          ELSE Ok([v EXCEPT !.messages = Append(v.messages, v.output_buffer),
                            !.output_buffer = <<>>,
                            !.state = "WaitingForInput",
                            !.ip = v.ip - 2])

exec_Noop(v, a) == Ok(v)

execute(vm, instruction, next_instruction_ptr, oc) ==
  LET v == [vm EXCEPT !.ip = next_instruction_ptr]
      a == instruction.args
  IN CASE instruction.op = "Halt" -> exec_Halt(v, a)
       [] instruction.op = "Set" -> exec_Set(v, a)
       [] instruction.op = "Push" -> exec_Push(v, a)
       [] instruction.op = "Pop" -> exec_Pop(v, a)
       [] instruction.op = "Eq" -> exec_Eq(v, a)
       [] instruction.op = "Gt" -> exec_Gt(v, a)
       [] instruction.op = "Jmp" -> exec_Jmp(v, a)
       [] instruction.op = "Jt" -> exec_Jt(v, a)
       [] instruction.op = "Jf" -> exec_Jf(v, a)
       [] instruction.op = "Add" -> exec_Add(v, a, oc)
       [] instruction.op = "Mult" -> exec_Mult(v, a)
       [] instruction.op = "Mod" -> exec_Mod(v, a)
       [] instruction.op = "And" -> exec_And(v, a)
       [] instruction.op = "Or" -> exec_Or(v, a)
       [] instruction.op = "Not" -> exec_Not(v, a)
       [] instruction.op = "Rmem" -> exec_Rmem(v, a)
       [] instruction.op = "Wmem" -> exec_Wmem(v, a)
       [] instruction.op = "Call" -> exec_Call(v, a)
       [] instruction.op = "Ret" -> exec_Ret(v, a)
       [] instruction.op = "Out" -> exec_Out(v, a)
       [] instruction.op = "In" -> exec_In(v, a)
       [] instruction.op = "Noop" -> exec_Noop(v, a)

\* the trace filter of step: (discriminant & traced_opcodes) != 0
traced(v, instruction) ==
  BitAndN(discriminant(instruction), v.traced_opcodes, 32) # 0

\* Vm::step past its state check: fetch, trace, execute, count
step_running(v, oc) ==
  LET f == fetch(v, v.ip) IN
    IF f.res = "panic" THEN Panic(v)
    ELSE IF f.res = "err" THEN Err(v)
    ELSE LET instruction == f.instr
             v1 == IF traced(v, instruction)
                   THEN [v EXCEPT !.trace_buffer =
                                    Append(v.trace_buffer, <<v.ip, instruction>>)]
                   ELSE v
             r == execute(v1, instruction, v.ip + size(instruction), oc)
         IN IF r.res = "panic" THEN r
            ELSE Ok([r.vm EXCEPT !.pc = r.vm.pc + 1])

\* step refusing only a halted Vm
step_halted_only(v, oc) ==
  IF v.state = "Halted" THEN Err(v) ELSE step_running(v, oc)

\* Vm::step
step(v, oc) ==
  IF v.state # "Running" THEN Err(v) ELSE step_running(v, oc)

\* feed without the trailing newline
feed_no_newline(v, line) ==
  IF v.state # "WaitingForInput" THEN Err(v)
  ELSE IF v.input_buffer # <<>> THEN Err(v)
  ELSE Ok([v EXCEPT !.input_buffer = line, !.state = "Running"])

\* feed without its check of the state
feed_any_state(v, line) ==
  IF v.input_buffer # <<>> THEN Err(v)
  ELSE Ok([v EXCEPT !.input_buffer = Append(line, NEWLINE),
                    !.state = "Running"])

\* Vm::feed
feed(v, line) ==
  IF v.state # "WaitingForInput" THEN Err(v)
  ELSE IF v.input_buffer # <<>> THEN Err(v)
  ELSE Ok([v EXCEPT !.input_buffer = Append(line, NEWLINE),
                    !.state = "Running"])

\* Vm::set_register
set_register(v, reg, value) == [v EXCEPT !.registers[reg] = value]

\* Vm::set_patching
set_patching(v, val) == [v EXCEPT !.enable_patching = val]

----------------------------------------------------------------------------
\* The memory images the Vm is loaded with

R0 == 32768
R1 == 32769
R2 == 32770

\* Instructions (and stray words) as they lie in an image file.
Pool ==
  { <<0>>,                  \* Halt
    <<1, R0, 7>>,           \* Set(Reg(0), 7)
    <<2, R0>>,              \* Push(Reg(0))
    <<2, 40000>>,           \* Push(Invalid)
    <<3, R0>>,              \* Pop(Reg(0))
    <<3, 5>>,               \* Pop(5): the destination is no register
    <<4, R1, R0, 0>>,       \* Eq(Reg(1), Reg(0), 0)
    <<5, R1, 7, R0>>,       \* Gt(Reg(1), 7, Reg(0))
    <<6, 0>>,               \* Jmp(0)
    <<6, R0>>,              \* Jmp(Reg(0))
    <<6, 32767>>,           \* Jmp(32767): the last cell, which holds Halt
    <<7, R0, 0>>,           \* Jt(Reg(0), 0)
    <<8, R0, 5>>,           \* Jf(Reg(0), 5)
    <<9, R0, R0, 32767>>,   \* Add(Reg(0), Reg(0), 32767)
    <<9, R0, R0, R0>>,      \* Add(Reg(0), Reg(0), Reg(0))
    <<10, R0, 32767, 3>>,   \* Mult(Reg(0), 32767, 3)
    <<11, R0, 7, R0>>,      \* Mod(Reg(0), 7, Reg(0))
    <<12, R0, 6, 3>>,       \* And(Reg(0), 6, 3)
    <<13, R0, 6, 3>>,       \* Or(Reg(0), 6, 3)
    <<14, R0, R0>>,         \* Not(Reg(0), Reg(0))
    <<15, R0, 1>>,          \* Rmem(Reg(0), 1): cell 1 holds the word 32768
    <<16, 0, 21>>,          \* Wmem(0, 21)
    <<16, R0, 7>>,          \* Wmem(Reg(0), 7)
    <<17, 3>>,              \* Call(3)
    <<17, 2125>>,           \* Call(2125)
    <<17, 6027>>,           \* Call(6027)
    <<18>>,                 \* Ret
    <<19, 65>>,             \* Out(65)
    <<19, R0>>,             \* Out(Reg(0))
    <<20, R0>>,             \* In(Reg(0))
    <<20, 5>>,              \* In(5): the destination is no register
    <<21>>,                 \* Noop
    <<22>> }                \* no opcode

\* Whole programs: the end-to-end scenarios and loops around In and Out.
Programs ==
  { <<9, R0, R1, 4, 19, R0, 0>>,        \* Add r0,r1,4; Out r0; Halt
    <<17, 5, 0, 0, 0, 21, 18>>,         \* Call 5; Halt; ...; Noop; Ret
    <<20, R0, 19, R0, 0>>,              \* In r0; Out r0; Halt
    <<20, R0, 19, R0, 6, 0>>,           \* In r0; Out r0; Jmp 0
    <<20, R0, 20, R1, 20, R0>>,         \* In r0; In r1; In r0
    <<19, 65, 20, R0, 19, 66, 0>>,      \* Out 65; In r0; Out 66; Halt
    <<6, 3, 0, 40000>> }                \* Jmp 3; Halt; a word that is no opcode

Images ==
  {load_program_from_mem(Vm_new.memory, p) : p \in Programs}
  \cup {load_program_from_mem(Vm_new.memory, a \o b) : a \in Pool, b \in Pool}
  \cup {load_program_from_mem(Vm_new.memory, <<6, 32767>>) @@ (32767 :> 21)}

----------------------------------------------------------------------------
\* The state machine: a Vm, loaded with an image, and its driver's calls.

SetVM(v) ==
  /\ memory' = v.memory
  /\ registers' = v.registers
  /\ stack' = v.stack
  /\ ip' = v.ip
  /\ pc' = v.pc
  /\ state' = v.state
  /\ output_buffer' = v.output_buffer
  /\ input_buffer' = v.input_buffer
  /\ messages' = v.messages
  /\ traced_opcodes' = v.traced_opcodes
  /\ trace_buffer' = v.trace_buffer
  /\ called_patched_fn' = v.called_patched_fn
  /\ enable_patching' = v.enable_patching

\* Cli::new: saved_states: Default::default()
NoStates == [name \in {} |-> Vm_new]

\* no disassemble_function call was made
NoDis == [phase |-> "idle", res |-> "none", starting_ip |-> 0, queue |-> <<>>,
          explored |-> <<>>, instructions |-> <<>>]

\* the caller holds no second Vm
NoTwin == [res |-> "none", vm |-> Vm_new]

Init ==
  /\ \E img \in Images : memory = img
  /\ registers = Vm_new.registers
  /\ stack = Vm_new.stack
  /\ ip = Vm_new.ip
  /\ pc = Vm_new.pc
  /\ state = Vm_new.state
  /\ output_buffer = Vm_new.output_buffer
  /\ input_buffer = Vm_new.input_buffer
  /\ messages = Vm_new.messages
  /\ traced_opcodes = Vm_new.traced_opcodes
  /\ trace_buffer = Vm_new.trace_buffer
  /\ called_patched_fn = Vm_new.called_patched_fn
  /\ enable_patching = Vm_new.enable_patching
  /\ in_run = FALSE
  /\ outcome = "none"
  /\ lastOp = "load"
  /\ lastArg = <<>>
  /\ twin = NoTwin
  /\ ret = <<>>
  /\ saved_states = NoStates
  /\ breakpoints = {}
  /\ dis = NoDis

\* A panic ends the process; no call is made while run is looping.
Idle == outcome # "panic" /\ ~in_run

\* vm.step()
Step ==
  /\ Idle
  /\ pc < MaxPc
  /\ \E oc \in BOOLEAN :
       LET r == step(VM, oc) IN SetVM(r.vm) /\ outcome' = r.res
  /\ lastOp' = "step"
  /\ UNCHANGED <<in_run, lastArg, twin, saved_states, breakpoints, ret, dis>>

\* vm.feed(line)
Feed ==
  /\ Idle
  /\ \E line \in Lines :
       LET r == feed(VM, line) IN
         /\ SetVM(r.vm)
         /\ outcome' = r.res
         /\ lastArg' = IF r.res = "ok" THEN line ELSE lastArg
  /\ lastOp' = "feed"
  /\ UNCHANGED <<in_run, twin, saved_states, breakpoints, ret, dis>>

\* vm.run(), entry: self.state = VmState::Running
run_enter(v) == [v EXCEPT !.state = "Running"]

\* vm.run(), exit: a halted Vm flushes its output into the messages
run_exit(v) ==
  IF v.state = "Halted"
  THEN [v EXCEPT !.messages = Append(v.messages, v.output_buffer)]
  ELSE v

RunStart ==
  /\ Idle
  /\ SetVM(run_enter(VM))
  /\ in_run' = TRUE
  /\ outcome' = "none"
  /\ lastOp' = "run_start"
  /\ UNCHANGED <<lastArg, twin, saved_states, breakpoints, ret, dis>>

\* one turn of run's loop: self.step().unwrap()
RunStep ==
  /\ in_run /\ outcome # "panic"
  /\ state = "Running"
  /\ pc < MaxPc
  /\ \E oc \in BOOLEAN :
       LET r == step(VM, oc) IN
         /\ SetVM(r.vm)
         /\ outcome' = IF r.res = "ok" THEN "ok" ELSE "panic"
  /\ lastOp' = "run_step"
  /\ UNCHANGED <<in_run, lastArg, twin, saved_states, breakpoints, ret, dis>>

RunEnd ==
  /\ in_run /\ outcome # "panic"
  /\ state # "Running"
  /\ SetVM(run_exit(VM))
  /\ in_run' = FALSE
  /\ outcome' = "ok"
  /\ lastOp' = "run_end"
  /\ UNCHANGED <<lastArg, twin, saved_states, breakpoints, ret, dis>>

\* vm.set_patching(val): the driver configures the freshly loaded Vm, before
\* its first engine call
SetPatching ==
  /\ Idle
  /\ lastOp = "load"
  /\ \E val \in BOOLEAN : SetVM(set_patching(VM, val))
  /\ UNCHANGED <<in_run, outcome, lastOp, lastArg, twin, saved_states, breakpoints, ret, dis>>

Next == Step \/ Feed \/ RunStart \/ RunStep \/ RunEnd \/ SetPatching

Spec == Init /\ [][Next]_vars

----------------------------------------------------------------------------
\* Vm::run_until_ret and the callers that compare two Vms

\* impl PartialEq for Vm: the fields == compares
Vm_eq(a, b) ==
  /\ a.memory = b.memory
  /\ a.registers = b.registers
  /\ a.ip = b.ip
  /\ a.pc = b.pc
  /\ a.output_buffer = b.output_buffer
  /\ a.input_buffer = b.input_buffer

UntilRet(res, v, executed) == [res |-> res, vm |-> v, executed |-> executed]

\* the statements after run_until_ret's loop: fetch, step, record
run_until_ret_last(v, executed, oc) ==
  LET f == fetch(v, v.ip) IN
    IF f.res # "ok" THEN UntilRet(f.res, v, executed)
    ELSE LET r == step(v, oc) IN
      IF r.res # "ok" THEN UntilRet("panic", r.vm, executed)
      ELSE UntilRet("ok", r.vm, Append(executed, <<r.vm.ip, f.instr>>))

\* one turn of run_until_ret's loop, entered with the counters i and counter
RECURSIVE run_until_ret_loop(_, _, _, _, _)
run_until_ret_loop(v, i, counter, executed, oc) ==
  IF i + 1 > 20 THEN UntilRet("ok", v, executed)
  ELSE
    LET f == IF v.called_patched_fn
             THEN [res |-> "ok", instr |-> [op |-> "Ret", args |-> <<>>]]
             ELSE fetch(v, v.ip)
        v1 == [v EXCEPT !.called_patched_fn = FALSE]
        c1 == CASE f.instr.op = "Ret" -> counter - 1
                [] f.instr.op = "Call" -> counter + 1
                [] OTHER -> counter
    IN IF f.res # "ok" THEN UntilRet(f.res, v, executed)
       ELSE IF f.instr.op = "Ret" /\ c1 = 0
            THEN run_until_ret_last(v1, executed, oc)
       ELSE LET r == step(v1, oc) IN
         IF r.res # "ok" THEN UntilRet("panic", r.vm, executed)
         ELSE run_until_ret_loop(r.vm, i + 1, c1,
                                 Append(executed, <<r.vm.ip, f.instr>>), oc)

\* Vm::run_until_ret
run_until_ret(v, oc) == run_until_ret_loop(v, 0, 0, <<>>, oc)

\* the function at 2125, as the test patching_2125 assembles it
Fn2125 ==
  <<2, R1, 2, R2, 12, R2, R0, R1, 14, R2, R2, 13, R0, R0, R1,
    12, R0, R0, R2, 3, R2, 3, R1, 18>>

\* n Noop in a row
Noops(n) == [i \in 1..n |-> 21]

\* Lengths of the straight-line callees.
CalleeLens == {0, 2, 18, 19}

\* Programs run_until_ret is called on, ip at their first Call, and two that
\* come to a Ret before any Call.
UntilRetPrograms ==
  { <<17, 2125>> \o Noops(2123) \o Fn2125,              \* test patching_2125
    <<17, 3, 0, 17, 6, 18, 1, R0, 20, 18, 65535>>,      \* test run_until_ret
    <<18, 21, 21>>,                                     \* Ret; Noop; Noop
    <<2, 3, 18, 21, 6, 3>> }                            \* Push 3; Ret; Noop; Jmp 3
  \cup {<<17, 3, 0>> \o Noops(n) \o <<18>> : n \in CalleeLens}

\* Register values the callers set before the call.
RegVals == {0, 1, 42, 85, 99}

InitUntilRet ==
  /\ \E p \in UntilRetPrograms, reg0 \in RegVals, reg1 \in RegVals :
       LET vm == set_register(
                   set_register(
                     [Vm_new EXCEPT !.memory =
                                      load_program_from_mem(Vm_new.memory, p)],
                     0, reg0),
                   1, reg1)
       IN /\ memory = vm.memory
          /\ registers = vm.registers
          /\ twin = [res |-> "none", vm |-> vm]
  /\ stack = Vm_new.stack
  /\ ip = Vm_new.ip
  /\ pc = Vm_new.pc
  /\ state = Vm_new.state
  /\ output_buffer = Vm_new.output_buffer
  /\ input_buffer = Vm_new.input_buffer
  /\ messages = Vm_new.messages
  /\ traced_opcodes = Vm_new.traced_opcodes
  /\ trace_buffer = Vm_new.trace_buffer
  /\ called_patched_fn = Vm_new.called_patched_fn
  /\ enable_patching = Vm_new.enable_patching
  /\ in_run = FALSE
  /\ outcome = "none"
  /\ lastOp = "load"
  /\ lastArg = <<>>
  /\ ret = <<>>
  /\ saved_states = NoStates
  /\ breakpoints = {}
  /\ dis = NoDis

\* vm2.run_until_ret()
RunUntilRet ==
  /\ Idle /\ twin.res # "panic"
  /\ lastOp = "load"
  /\ \E oc \in BOOLEAN :
       LET r == run_until_ret(VM, oc) IN
         /\ SetVM(r.vm)
         /\ outcome' = r.res
         /\ ret' = r.executed
  /\ lastOp' = "run_until_ret"
  /\ UNCHANGED <<in_run, lastArg, twin, saved_states, breakpoints, dis>>

\* vm1.run_until_ret(), on the clone whose patching stays disabled
TwinRunUntilRet ==
  /\ Idle
  /\ twin.res = "none"
  /\ \E oc \in BOOLEAN :
       LET r == run_until_ret(twin.vm, oc) IN twin' = [res |-> r.res, vm |-> r.vm]
  /\ UNCHANGED <<vmvars, in_run, outcome, lastOp, lastArg, ret, saved_states, breakpoints, dis>>

NextUntilRet == SetPatching \/ RunUntilRet \/ TwinRunUntilRet

SpecUntilRet == InitUntilRet /\ [][NextUntilRet]_vars

----------------------------------------------------------------------------
\* Two ways through an In: suspended and fed, or with the input already there

\* What comes before the In.
PathPre ==
  { <<>>,
    <<19, 65>>,             \* Out(65)
    <<19, 66>>,             \* Out(66)
    <<1, R0, 7>>,           \* Set(Reg(0), 7)
    <<20, R1>> }            \* In(Reg(1))

PathPrograms == {a \o b \o <<20, d>> : a \in PathPre, b \in PathPre, d \in {R0, R1}}

InitPaths ==
  /\ \E p \in PathPrograms : memory = load_program_from_mem(Vm_new.memory, p)
  /\ registers = Vm_new.registers
  /\ stack = Vm_new.stack
  /\ ip = Vm_new.ip
  /\ pc = Vm_new.pc
  /\ state = Vm_new.state
  /\ output_buffer = Vm_new.output_buffer
  /\ input_buffer = Vm_new.input_buffer
  /\ messages = Vm_new.messages
  /\ traced_opcodes = Vm_new.traced_opcodes
  /\ trace_buffer = Vm_new.trace_buffer
  /\ called_patched_fn = Vm_new.called_patched_fn
  /\ enable_patching = Vm_new.enable_patching
  /\ in_run = FALSE
  /\ outcome = "none"
  /\ lastOp = "load"
  /\ lastArg = <<>>
  /\ twin = NoTwin
  /\ ret = <<>>
  /\ saved_states = NoStates
  /\ breakpoints = {}
  /\ dis = NoDis

\* The Vm is Running at an In with an empty input queue: the caller clones
\* it and gives the clone the newline that feed("") would queue.
Fork ==
  /\ Idle
  /\ twin.res = "none"
  /\ state = "Running" /\ input_buffer = <<>>
  /\ fetch(VM, ip).res = "ok" /\ fetch(VM, ip).instr.op = "In"
  /\ twin' = [res |-> "forked", vm |-> [VM EXCEPT !.input_buffer = <<NEWLINE>>]]
  /\ UNCHANGED <<vmvars, in_run, outcome, lastOp, lastArg, ret, saved_states, breakpoints, dis>>

\* clone.step()
TwinStep ==
  /\ Idle
  /\ twin.res = "forked"
  /\ \E oc \in BOOLEAN : twin' = step(twin.vm, oc)
  /\ UNCHANGED <<vmvars, in_run, outcome, lastOp, lastArg, ret, saved_states, breakpoints, dis>>

NextPaths == Step \/ Feed \/ Fork \/ TwinStep

SpecPaths == InitPaths /\ [][NextPaths]_vars

----------------------------------------------------------------------------
\* The binary codec of src/src/assembly.rs: Val and Opcode to and from words.
\* A slice of words is a sequence; the word at offset i is its element i + 1.

\* (variant) as_binary without the register offset
Val_as_binary_no_offset(val) ==
  CASE val.k = "Num" -> val.v
    [] val.k = "Reg" -> val.v % U16
    [] val.k = "Invalid" -> 32776

\* Val::as_binary
Val_as_binary(val) ==
  CASE val.k = "Num" -> val.v
    [] val.k = "Reg" -> (val.v % U16) + 32768
    [] val.k = "Invalid" -> 32776

\* an instruction value
Op(name, operands) == [op |-> name, args |-> operands]

\* Opcode::size
Opcode_size(instr) ==
  CASE instr.op = "Halt" -> 1
    [] instr.op = "Set" -> 3
    [] instr.op = "Push" -> 2
    [] instr.op = "Pop" -> 2
    [] instr.op = "Eq" -> 4
    [] instr.op = "Gt" -> 4
    [] instr.op = "Jmp" -> 2
    [] instr.op = "Jt" -> 3
    [] instr.op = "Jf" -> 3
    [] instr.op = "Add" -> 4
    [] instr.op = "Mult" -> 4
    [] instr.op = "Mod" -> 4
    [] instr.op = "And" -> 4
    [] instr.op = "Or" -> 4
    [] instr.op = "Not" -> 3
    [] instr.op = "Rmem" -> 3
    [] instr.op = "Wmem" -> 3
    [] instr.op = "Call" -> 2
    [] instr.op = "Ret" -> 1
    [] instr.op = "Out" -> 2
    [] instr.op = "In" -> 2
    [] instr.op = "Noop" -> 1
    [] instr.op = "__Invalid" -> 1

\* one arm of Opcode::fetch: the instruction name with n operands decoded
\* from memory[ip + 1 ..= ip + n]; indexing past the slice panics
Decoded(name, n, mem, at) ==
  IF at + n >= Len(mem) THEN [res |-> "panic", instr |-> NoInstr]
  ELSE [res |-> "ok",
        instr |-> Op(name, [k \in 1..n |-> Val_new(mem[at + k + 1])])]

\* (variant) fetch that knows the 22 architecture opcodes only
Opcode_fetch_22(mem, at) ==
  IF at >= Len(mem) THEN [res |-> "panic", instr |-> NoInstr]
  ELSE LET instr_type == mem[at + 1] IN
    IF instr_type > 21 THEN [res |-> "err", instr |-> NoInstr]
    ELSE Decoded(OpNames[instr_type + 1],
                 Opcode_size(Op(OpNames[instr_type + 1], <<>>)) - 1, mem, at)

\* Opcode::fetch
Opcode_fetch(mem, at) ==
  IF at >= Len(mem) THEN [res |-> "panic", instr |-> NoInstr]
  ELSE LET instr_type == mem[at + 1] IN
    CASE instr_type = 0 -> Decoded("Halt", 0, mem, at)
      [] instr_type = 1 -> Decoded("Set", 2, mem, at)
      [] instr_type = 2 -> Decoded("Push", 1, mem, at)
      [] instr_type = 3 -> Decoded("Pop", 1, mem, at)
      [] instr_type = 4 -> Decoded("Eq", 3, mem, at)
      [] instr_type = 5 -> Decoded("Gt", 3, mem, at)
      [] instr_type = 6 -> Decoded("Jmp", 1, mem, at)
      [] instr_type = 7 -> Decoded("Jt", 2, mem, at)
      [] instr_type = 8 -> Decoded("Jf", 2, mem, at)
      [] instr_type = 9 -> Decoded("Add", 3, mem, at)
      [] instr_type = 10 -> Decoded("Mult", 3, mem, at)
      [] instr_type = 11 -> Decoded("Mod", 3, mem, at)
      [] instr_type = 12 -> Decoded("And", 3, mem, at)
      [] instr_type = 13 -> Decoded("Or", 3, mem, at)
      [] instr_type = 14 -> Decoded("Not", 2, mem, at)
      [] instr_type = 15 -> Decoded("Rmem", 2, mem, at)
      [] instr_type = 16 -> Decoded("Wmem", 2, mem, at)
      [] instr_type = 17 -> Decoded("Call", 1, mem, at)
      [] instr_type = 18 -> Decoded("Ret", 0, mem, at)
      [] instr_type = 19 -> Decoded("Out", 1, mem, at)
      [] instr_type = 20 -> Decoded("In", 1, mem, at)
      [] instr_type = 21 -> Decoded("Noop", 0, mem, at)
      [] instr_type = U16 - 1 -> Decoded("__Invalid", 0, mem, at)
      [] OTHER -> [res |-> "err", instr |-> NoInstr]

\* the operands of an instruction as words
Operands(instr) == [k \in 1..Len(instr.args) |-> Val_as_binary(instr.args[k])]

\* (variant) assemble that writes the operands last to first
Opcode_assemble_reversed(instr) ==
  LET n == Len(instr.args) IN
    <<tag(instr)>> \o [k \in 1..n |-> Val_as_binary(instr.args[n + 1 - k])]

\* Opcode::assemble
Opcode_assemble(instr) ==
  CASE instr.op = "Halt" -> <<0>>
    [] instr.op = "Set" -> <<1>> \o Operands(instr)
    [] instr.op = "Push" -> <<2>> \o Operands(instr)
    [] instr.op = "Pop" -> <<3>> \o Operands(instr)
    [] instr.op = "Eq" -> <<4>> \o Operands(instr)
    [] instr.op = "Gt" -> <<5>> \o Operands(instr)
    [] instr.op = "Jmp" -> <<6>> \o Operands(instr)
    [] instr.op = "Jt" -> <<7>> \o Operands(instr)
    [] instr.op = "Jf" -> <<8>> \o Operands(instr)
    [] instr.op = "Add" -> <<9>> \o Operands(instr)
    [] instr.op = "Mult" -> <<10>> \o Operands(instr)
    [] instr.op = "Mod" -> <<11>> \o Operands(instr)
    [] instr.op = "And" -> <<12>> \o Operands(instr)
    [] instr.op = "Or" -> <<13>> \o Operands(instr)
    [] instr.op = "Not" -> <<14>> \o Operands(instr)
    [] instr.op = "Rmem" -> <<15>> \o Operands(instr)
    [] instr.op = "Wmem" -> <<16>> \o Operands(instr)
    [] instr.op = "Call" -> <<17>> \o Operands(instr)
    [] instr.op = "Ret" -> <<18>>
    [] instr.op = "Out" -> <<19>> \o Operands(instr)
    [] instr.op = "In" -> <<20>> \o Operands(instr)
    [] instr.op = "Noop" -> <<21>>
    [] instr.op = "__Invalid" -> <<U16 - 1>>

\* Opcode::assemble_vec
RECURSIVE Opcode_assemble_vec(_)
Opcode_assemble_vec(v) ==
  IF v = <<>> THEN <<>>
  ELSE Opcode_assemble(Head(v)) \o Opcode_assemble_vec(Tail(v))

\* the loop of Opcode::disassemble
RECURSIVE disassemble_loop(_, _, _, _)
disassemble_loop(machine_code, start, ptr, instructions) ==
  IF ptr < Len(machine_code)
  THEN LET f == Opcode_fetch(machine_code, ptr) IN
    IF f.res # "ok" THEN [res |-> f.res, instructions |-> instructions]
    ELSE disassemble_loop(machine_code, start + Opcode_size(f.instr),
                          ptr + Opcode_size(f.instr),
                          Append(instructions, <<start, f.instr>>))
  ELSE [res |-> "ok", instructions |-> instructions]

\* (variant) disassemble that numbers the instructions from offset 0
Opcode_disassemble_from_zero(machine_code, start) ==
  disassemble_loop(machine_code, 0, 0, <<>>)

\* Opcode::disassemble
Opcode_disassemble(machine_code, start) ==
  disassemble_loop(machine_code, start, 0, <<>>)

----------------------------------------------------------------------------
\* The codec applied to every word

\* No Vm is involved in a codec call: its fields stay as Vm::new leaves them.
NoVmInUse ==
  /\ memory = Vm_new.memory
  /\ registers = Vm_new.registers
  /\ stack = Vm_new.stack
  /\ ip = Vm_new.ip
  /\ pc = Vm_new.pc
  /\ state = Vm_new.state
  /\ output_buffer = Vm_new.output_buffer
  /\ input_buffer = Vm_new.input_buffer
  /\ messages = Vm_new.messages
  /\ traced_opcodes = Vm_new.traced_opcodes
  /\ trace_buffer = Vm_new.trace_buffer
  /\ called_patched_fn = Vm_new.called_patched_fn
  /\ enable_patching = Vm_new.enable_patching
  /\ in_run = FALSE
  /\ outcome = "none"
  /\ twin = NoTwin

\* every u16
Words == 0..(U16 - 1)

\* Words that follow the tag in the slice given to fetch.
Fill == {0, 32768, 40000}

\* lastArg is the word the calls are made on, ret the values they returned.
InitWord ==
  /\ NoVmInUse
  /\ lastOp = "start"
  /\ lastArg \in Words
  /\ ret = <<>>
  /\ saved_states = NoStates
  /\ breakpoints = {}
  /\ dis = NoDis

\* Val::new(w)
ValNew ==
  /\ lastOp = "start"
  /\ ret' = <<Val_new(lastArg)>>
  /\ lastOp' = "Val::new"
  /\ UNCHANGED <<vmvars, in_run, outcome, lastArg, twin, saved_states, breakpoints, dis>>

\* Val::new(w).as_binary()
AsBinary ==
  /\ lastOp = "Val::new"
  /\ ret' = Append(ret, Val_as_binary(ret[1]))
  /\ lastOp' = "as_binary"
  /\ UNCHANGED <<vmvars, in_run, outcome, lastArg, twin, saved_states, breakpoints, dis>>

\* Opcode::fetch(&[w, a, a, a], 0)
FetchTag ==
  /\ lastOp = "start"
  /\ \E a \in Fill : ret' = <<Opcode_fetch(<<lastArg, a, a, a>>, 0)>>
  /\ lastOp' = "fetch"
  /\ UNCHANGED <<vmvars, in_run, outcome, lastArg, twin, saved_states, breakpoints, dis>>

NextWord == ValNew \/ AsBinary \/ FetchTag

SpecWord == InitWord /\ [][NextWord]_vars

----------------------------------------------------------------------------
\* The codec applied to instructions and to sequences of instructions

\* In-domain operands: the ends of the immediates and of the registers.
OperandVals == {Num(0), Num(32767), Reg(0), Reg(7)}

\* every instruction of the 22 opcodes over OperandVals
InDomain ==
  UNION {{Op(OpNames[t], a) :
            a \in [1..(Opcode_size(Op(OpNames[t], <<>>)) - 1) -> OperandVals]} :
         t \in 1..22}

\* Instructions the sequences are made of; some operands are words that
\* are opcode tags too.
SeqInstrs ==
  { Op("Halt", <<>>), Op("Noop", <<>>), Op("Ret", <<>>),
    Op("Push", <<Num(18)>>), Op("Set", <<Reg(7), Num(0)>>),
    Op("Add", <<Reg(0), Num(21), Reg(7)>>), Op("Call", <<Num(32767)>>) }

\* Longest sequence of instructions assembled.
MaxOps == 3

\* Base addresses given to disassemble.
Addrs == {0, 2125, 32767}

CodecInputs ==
  [ops : {<<op>> : op \in InDomain}
         \cup UNION {[1..n -> SeqInstrs] : n \in 0..MaxOps},
   addr : Addrs]

InitCodec ==
  /\ NoVmInUse
  /\ lastOp = "start"
  /\ lastArg \in CodecInputs
  /\ ret = <<>>
  /\ saved_states = NoStates
  /\ breakpoints = {}
  /\ dis = NoDis

\* op.assemble()
Assemble ==
  /\ lastOp = "start" /\ Len(lastArg.ops) = 1
  /\ ret' = <<Opcode_assemble(lastArg.ops[1])>>
  /\ lastOp' = "assemble"
  /\ UNCHANGED <<vmvars, in_run, outcome, lastArg, twin, saved_states, breakpoints, dis>>

\* Opcode::fetch(&op.assemble(), 0)
Fetch ==
  /\ lastOp = "assemble"
  /\ ret' = Append(ret, Opcode_fetch(ret[1], 0))
  /\ lastOp' = "fetch"
  /\ UNCHANGED <<vmvars, in_run, outcome, lastArg, twin, saved_states, breakpoints, dis>>

\* Opcode::assemble_vec(&ops)
AssembleVec ==
  /\ lastOp = "start"
  /\ ret' = <<Opcode_assemble_vec(lastArg.ops)>>
  /\ lastOp' = "assemble_vec"
  /\ UNCHANGED <<vmvars, in_run, outcome, lastArg, twin, saved_states, breakpoints, dis>>

\* Opcode::disassemble(&Opcode::assemble_vec(&ops), addr)
Disassemble ==
  /\ lastOp = "assemble_vec"
  /\ ret' = Append(ret, Opcode_disassemble(ret[1], lastArg.addr))
  /\ lastOp' = "disassemble"
  /\ UNCHANGED <<vmvars, in_run, outcome, lastArg, twin, saved_states, breakpoints, dis>>

NextCodec == Assemble \/ Fetch \/ AssembleVec \/ Disassemble

SpecCodec == InitCodec /\ [][NextCodec]_vars

----------------------------------------------------------------------------
\* Add, Mult and Not over the range of their operands

\* Operand values: the ends of 0..32767, powers of two, and values whose sum
\* or product passes 32768 and 65536.
ArithVals == {0, 1, 2, 3, 255, 256, 16384, 32766, 32767}

\* One arithmetic instruction at address 0, its operands immediates, registers
\* or both; the destination may be an operand.
ArithPrograms ==
  {<<t, R2, R0, R1>> : t \in {9, 10}}
  \cup {<<t, R0, R0, R1>> : t \in {9, 10}}
  \cup {<<t, R2, b, c>> : t \in {9, 10}, b \in ArithVals, c \in ArithVals}
  \cup {<<t, R1, R0, c>> : t \in {9, 10}, c \in ArithVals}
  \cup {<<14, R2, R0>>, <<14, R0, R0>>}
  \cup {<<14, R2, b>> : b \in ArithVals}

InitArith ==
  /\ \E p \in ArithPrograms, reg0 \in ArithVals, reg1 \in ArithVals :
       /\ memory = load_program_from_mem(Vm_new.memory, p)
       /\ registers = set_register(set_register(Vm_new, 0, reg0), 1, reg1).registers
  /\ stack = Vm_new.stack
  /\ ip = Vm_new.ip
  /\ pc = Vm_new.pc
  /\ state = Vm_new.state
  /\ output_buffer = Vm_new.output_buffer
  /\ input_buffer = Vm_new.input_buffer
  /\ messages = Vm_new.messages
  /\ traced_opcodes = Vm_new.traced_opcodes
  /\ trace_buffer = Vm_new.trace_buffer
  /\ called_patched_fn = Vm_new.called_patched_fn
  /\ enable_patching = Vm_new.enable_patching
  /\ in_run = FALSE
  /\ outcome = "none"
  /\ lastOp = "load"
  /\ lastArg = <<>>
  /\ twin = NoTwin
  /\ ret = <<>>
  /\ saved_states = NoStates
  /\ breakpoints = {}
  /\ dis = NoDis

NextArith == Step

SpecArith == InitArith /\ [][NextArith]_vars

----------------------------------------------------------------------------
\* The debugger's named snapshots (struct Cli: vm and saved_states)

CLI == [vm |-> VM, saved_states |-> saved_states]

\* names given to the state commands, as character codes: "a" and "b"
Names == {<<97>>, <<98>>}

\* the name snapshots are saved under: "a"
SaveNames == {<<97>>}

\* HashMap::get: the Option is <<>> for None and <<vm>> for Some(vm)
get_state_by_name(c, name) ==
  IF name \in DOMAIN c.saved_states THEN <<c.saved_states[name]>> ELSE <<>>

\* insert(name, self.vm.clone()): an entry of that name is replaced
save_state(c, name) ==
  [c EXCEPT !.saved_states =
     [n \in DOMAIN c.saved_states \cup {name} |->
        IF n = name THEN c.vm ELSE c.saved_states[n]]]

remove_state(c, name) ==
  [c EXCEPT !.saved_states =
     [n \in DOMAIN c.saved_states \ {name} |-> c.saved_states[n]]]

\* (variant) load_state that takes the snapshot out of the map
load_state_take(c, name) ==
  LET st == get_state_by_name(c, name)
  IN IF st # <<>> THEN [remove_state(c, name) EXCEPT !.vm = st[1]] ELSE c

load_state(c, name) ==
  LET st == get_state_by_name(c, name)
  IN IF st # <<>> THEN [c EXCEPT !.vm = st[1]] ELSE c

CliPrograms ==
  { <<20, R0, 19, R0, 0>>,              \* In r0; Out r0; Halt
    <<17, 5, 0, 0, 0, 21, 18>> }        \* Call 5; Halt; ...; Noop; Ret

InitCli ==
  /\ \E p \in CliPrograms : memory = load_program_from_mem(Vm_new.memory, p)
  /\ registers = Vm_new.registers
  /\ stack = Vm_new.stack
  /\ ip = Vm_new.ip
  /\ pc = Vm_new.pc
  /\ state = Vm_new.state
  /\ output_buffer = Vm_new.output_buffer
  /\ input_buffer = Vm_new.input_buffer
  /\ messages = Vm_new.messages
  /\ traced_opcodes = Vm_new.traced_opcodes
  /\ trace_buffer = Vm_new.trace_buffer
  /\ called_patched_fn = Vm_new.called_patched_fn
  /\ enable_patching = Vm_new.enable_patching
  /\ in_run = FALSE
  /\ outcome = "none"
  /\ lastOp = "load"
  /\ lastArg = <<>>
  /\ twin = NoTwin
  /\ ret = <<>>
  /\ saved_states = NoStates
  /\ breakpoints = {}
  /\ dis = NoDis

\* the "state save <name>" command
SaveState ==
  /\ Idle
  /\ \E name \in SaveNames :
       /\ saved_states' = save_state(CLI, name).saved_states
       /\ lastArg' = name
  /\ outcome' = "ok"
  /\ lastOp' = "save_state"
  /\ UNCHANGED vmvars
  /\ UNCHANGED <<in_run, twin, breakpoints, ret, dis>>

\* the "state load <name>" command
LoadState ==
  /\ Idle
  /\ \E name \in Names :
       LET c == load_state(CLI, name) IN
         /\ SetVM(c.vm)
         /\ saved_states' = c.saved_states
         /\ lastArg' = name
         /\ outcome' = IF get_state_by_name(CLI, name) # <<>> THEN "ok" ELSE "not_found"
  /\ lastOp' = "load_state"
  /\ UNCHANGED <<in_run, twin, breakpoints, ret, dis>>

\* the "state remove <name>" command
RemoveState ==
  /\ Idle
  /\ \E name \in Names :
       /\ saved_states' = remove_state(CLI, name).saved_states
       /\ lastArg' = name
  /\ outcome' = "ok"
  /\ lastOp' = "remove_state"
  /\ UNCHANGED vmvars
  /\ UNCHANGED <<in_run, twin, breakpoints, ret, dis>>

NextCli ==
  \/ Step \/ Feed \/ RunStart \/ RunStep \/ RunEnd
  \/ SaveState \/ LoadState \/ RemoveState

SpecCli == InitCli /\ [][NextCli]_vars

----------------------------------------------------------------------------
\* Breakpoints.  The engine under study has no breakpoint set; the debugger
\* calls set_breakpoint, unset_breakpoint and get_breakpoints of a later
\* engine.  They are modelled here as that engine's description gives them:
\* a set of addresses, and a step that stops in front of a member.

get_breakpoints(bps) == bps

set_breakpoint(bps, offset) == bps \cup {offset}

unset_breakpoint(bps, offset) == bps \ {offset}

\* (variant) a step that executes the instruction at the breakpoint and stops
\* after it
step_at_breakpoint_late(v, bps, oc) ==
  IF v.state # "Running" THEN Err(v)
  ELSE IF v.ip \in bps
       THEN Err([step_running(v, oc).vm EXCEPT !.state = "AtBreakpoint"])
       ELSE step_running(v, oc)

\* step of the engine with breakpoints: it requires Running; with ip in the
\* breakpoint set it moves to AtBreakpoint and fails, executing nothing
step_at_breakpoint(v, bps, oc) ==
  IF v.state # "Running" THEN Err(v)
  ELSE IF v.ip \in get_breakpoints(bps)
       THEN Err([v EXCEPT !.state = "AtBreakpoint"])
       ELSE step_running(v, oc)

\* addresses given to the bp commands: instructions of the programs below
BpAddrs == {0, 2, 4, 5}

BpPrograms ==
  { <<9, R0, R1, 4, 19, R0, 0>>,        \* Add r0,r1,4; Out r0; Halt
    <<17, 5, 0, 0, 0, 21, 18>> }        \* Call 5; Halt; ...; Noop; Ret

InitBp ==
  /\ \E p \in BpPrograms : memory = load_program_from_mem(Vm_new.memory, p)
  /\ registers = Vm_new.registers
  /\ stack = Vm_new.stack
  /\ ip = Vm_new.ip
  /\ pc = Vm_new.pc
  /\ state = Vm_new.state
  /\ output_buffer = Vm_new.output_buffer
  /\ input_buffer = Vm_new.input_buffer
  /\ messages = Vm_new.messages
  /\ traced_opcodes = Vm_new.traced_opcodes
  /\ trace_buffer = Vm_new.trace_buffer
  /\ called_patched_fn = Vm_new.called_patched_fn
  /\ enable_patching = Vm_new.enable_patching
  /\ in_run = FALSE
  /\ outcome = "none"
  /\ lastOp = "load"
  /\ lastArg = <<>>
  /\ twin = NoTwin
  /\ ret = <<>>
  /\ saved_states = NoStates
  /\ breakpoints = {}
  /\ dis = NoDis

\* vm.step() of the engine with breakpoints
StepBp ==
  /\ Idle
  /\ pc < MaxPc
  /\ \E oc \in BOOLEAN :
       LET r == step_at_breakpoint(VM, breakpoints, oc) IN
         SetVM(r.vm) /\ outcome' = r.res
  /\ lastOp' = "step"
  /\ UNCHANGED <<in_run, lastArg, twin, saved_states, breakpoints, ret, dis>>

\* the "bp set <offset>" command
SetBreakpoint ==
  /\ Idle
  /\ \E offset \in BpAddrs :
       /\ breakpoints' = set_breakpoint(breakpoints, offset)
       /\ lastArg' = <<offset>>
  /\ outcome' = "ok"
  /\ lastOp' = "set_breakpoint"
  /\ UNCHANGED vmvars
  /\ UNCHANGED <<in_run, twin, saved_states, ret, dis>>

\* the "bp unset <offset>" command
UnsetBreakpoint ==
  /\ Idle
  /\ \E offset \in BpAddrs :
       /\ breakpoints' = unset_breakpoint(breakpoints, offset)
       /\ lastArg' = <<offset>>
  /\ outcome' = "ok"
  /\ lastOp' = "unset_breakpoint"
  /\ UNCHANGED vmvars
  /\ UNCHANGED <<in_run, twin, saved_states, ret, dis>>

NextBp == StepBp \/ SetBreakpoint \/ UnsetBreakpoint

SpecBp == InitBp /\ [][NextBp]_vars

----------------------------------------------------------------------------
\* Patching an instruction in place (Vm::patch)

\* Val::to_binary of the engine
to_binary(val) ==
  CASE val.k = "Num" -> val.v
    [] val.k = "Reg" -> (val.v % U16) + 32768
    [] val.k = "Invalid" -> 32776

\* Opcode::machine_code: the arms that are todo!() panic
machine_code(instr) ==
  IF instr.op \in {"Push", "Pop", "Gt", "Mult", "Mod", "And", "Or", "Not",
                   "Rmem", "Wmem", "Out", "In"}
  THEN [res |-> "panic", bin |-> <<>>]
  ELSE [res |-> "ok",
        bin |-> <<tag(instr)>> \o [i \in 1..Len(instr.args) |-> to_binary(instr.args[i])]]

\* Vm::disassemble: count instructions fetched from start on
RECURSIVE Vm_disassemble(_, _, _)
Vm_disassemble(v, start, count) ==
  IF count = 0 THEN [res |-> "ok", instructions |-> <<>>]
  ELSE LET f == fetch(v, start) IN
    IF f.res # "ok" THEN [res |-> f.res, instructions |-> <<>>]
    ELSE LET rest == Vm_disassemble(v, start + size(f.instr), count - 1) IN
      IF rest.res # "ok" THEN rest
      ELSE [res |-> "ok", instructions |-> <<(<<start, f.instr>>)>> \o rest.instructions]

\* memory[offset..(offset + size)].copy_from_slice(&bin)
copy_from_slice(mem, offset, bin) ==
  LET range == offset..(offset + Len(bin) - 1) IN
    [x \in ((DOMAIN mem) \ range) \cup {a \in range : bin[a - offset + 1] # 0} |->
       IF x \in range THEN bin[x - offset + 1] ELSE mem[x]]

\* Vm::patch: a disassembly that fails is only reported, one that panics
\* ends the call
patch(v, opcode, offset) ==
  LET m == machine_code(opcode) IN
    IF m.res = "panic" THEN Panic(v)
    ELSE IF Vm_disassemble(v, offset, 1).res = "panic" THEN Panic(v)
    ELSE IF offset + Len(m.bin) > MEM_SIZE THEN Panic(v)
    ELSE Ok([v EXCEPT !.memory = copy_from_slice(v.memory, offset, m.bin)])

\* what Vm::patch prints: old_size is x.len(), the length of the list of
\* instructions disassemble returned, and size the number of words of bin
patch_prints(v, opcode, offset) ==
  LET m == machine_code(opcode)
      x == Vm_disassemble(v, offset, 1)
  IN IF m.res = "panic" \/ x.res = "panic" THEN <<>>
     ELSE IF x.res = "ok"
          THEN LET old_size == Len(x.instructions)
                   size_ == Len(m.bin)
               IN IF old_size # size_
                  THEN <<"WARNING: patched opcode of different size">>
                  ELSE <<>>
          ELSE <<"Can't disassemble">>

\* operands of the patched-in instructions
PatchVals == {Num(5), Reg(0), Invalid}

\* every opcode, its operands all alike
PatchOps ==
  {Op(OpNames[t + 1],
      [i \in 1..(size(Op(OpNames[t + 1], <<>>)) - 1) |-> val]) :
     t \in 0..21, val \in PatchVals}

\* addresses patched: in the program, and at the end of memory
PatchAddrs == {0, 2, 5, 32764, 32766, 32767}

PatchImages ==
  { load_program_from_mem(Vm_new.memory, <<9, R0, R1, 4, 19, R0, 0>>),
    load_program_from_mem(Vm_new.memory, <<17, 5, 0, 0, 0, 21, 18>>),
    load_program_from_mem(Vm_new.memory, <<1, R0, 7, 2, R0>>) @@ (32766 :> 1) }

InitPatch ==
  /\ memory \in PatchImages
  /\ registers = Vm_new.registers
  /\ stack = Vm_new.stack
  /\ ip = Vm_new.ip
  /\ pc = Vm_new.pc
  /\ state = Vm_new.state
  /\ output_buffer = Vm_new.output_buffer
  /\ input_buffer = Vm_new.input_buffer
  /\ messages = Vm_new.messages
  /\ traced_opcodes = Vm_new.traced_opcodes
  /\ trace_buffer = Vm_new.trace_buffer
  /\ called_patched_fn = Vm_new.called_patched_fn
  /\ enable_patching = Vm_new.enable_patching
  /\ in_run = FALSE
  /\ outcome = "none"
  /\ lastOp = "load"
  /\ lastArg = <<>>
  /\ twin = NoTwin
  /\ ret = <<>>
  /\ saved_states = NoStates
  /\ breakpoints = {}
  /\ dis = NoDis

\* the "patch" command: vm.patch(opcode, offset), once in a session, with
\* the instruction lying inside the memory
Patch ==
  /\ Idle
  /\ lastArg = <<>>
  /\ \E opcode \in PatchOps, offset \in PatchAddrs :
       /\ offset + size(opcode) <= MEM_SIZE
       /\ LET r == patch(VM, opcode, offset) IN
            SetVM(r.vm) /\ outcome' = r.res
       /\ ret' = patch_prints(VM, opcode, offset)
       /\ lastArg' = <<opcode, offset>>
  /\ lastOp' = "patch"
  /\ UNCHANGED <<in_run, twin, saved_states, breakpoints, dis>>

NextPatch == Step \/ Patch

SpecPatch == InitPatch /\ [][NextPatch]_vars

----------------------------------------------------------------------------
\* Vm::disassemble_function: the instructions reachable from an entry

\* Opcode::next_possible_ip
next_possible_ip(instr) ==
  CASE instr.op = "Jmp" -> <<instr.args[1]>>
    [] instr.op \in {"Jt", "Jf"} -> <<instr.args[2]>>
    [] instr.op = "Call" -> <<instr.args[1]>>
    [] OTHER -> <<>>

\* (variant) the successors with the target of a Call among them
successors_with_calls(instr, at) ==
  CASE instr.op \in {"Halt", "Ret"} -> <<>>
    [] OTHER -> next_possible_ip(instr) \o <<Num((at + size(instr)) % U16)>>

\* the match on instr: the successors of the instruction popped at at
successors(instr, at) ==
  CASE instr.op \in {"Halt", "Ret"} -> <<>>
    [] instr.op = "Call" -> <<Num((at + size(instr)) % U16)>>
    [] OTHER -> next_possible_ip(instr) \o <<Num((at + size(instr)) % U16)>>

\* the statements before the loop
dis_enter(v, starting_ip) ==
  LET f == fetch(v, starting_ip) IN
    IF f.res # "ok"
    THEN [NoDis EXCEPT !.phase = "done", !.res = f.res, !.starting_ip = starting_ip]
    ELSE [NoDis EXCEPT !.phase = "loop", !.starting_ip = starting_ip,
                       !.queue = << <<starting_ip, f.instr, size(f.instr)>> >>]

\* for n in &next, from the i-th on: d is the call's locals so far
RECURSIVE dis_enqueue(_, _, _, _)
dis_enqueue(v, d, next, i) ==
  IF i > Len(next) THEN d
  ELSE LET n == next[i] IN
    IF n.k \in {"Invalid", "Reg"} THEN dis_enqueue(v, d, next, i + 1)
    ELSE IF \E j \in 1..Len(d.explored) : d.explored[j] = n.v
         THEN dis_enqueue(v, d, next, i + 1)
    ELSE LET f == fetch(v, n.v) IN
      IF f.res # "ok" THEN [d EXCEPT !.phase = "done", !.res = f.res]
      ELSE dis_enqueue(v, [d EXCEPT !.queue = Append(d.queue, <<n.v, f.instr, size(f.instr)>>)],
                       next, i + 1)

\* (variant) one turn of the loop that does not look at explored when it pops
dis_turn_no_skip(v, d) ==
  LET at == d.queue[1][1]
      instr == d.queue[1][2]
      d1 == [d EXCEPT !.queue = Tail(d.queue)]
      d2 == dis_enqueue(v, d1, successors(instr, at), 1)
  IN IF d2.phase = "done" THEN d2
     ELSE [d2 EXCEPT !.explored = Append(d2.explored, at),
                     !.instructions = Append(d2.instructions, <<at, instr>>)]

\* one turn of the loop: while let Some((ip, instr, size)) = queue.pop_front()
dis_turn(v, d) ==
  LET at == d.queue[1][1]
      instr == d.queue[1][2]
      d1 == [d EXCEPT !.queue = Tail(d.queue)]
  IN IF \E j \in 1..Len(d.explored) : d.explored[j] = at THEN d1
     ELSE LET d2 == dis_enqueue(v, d1, successors(instr, at), 1)
          IN IF d2.phase = "done" THEN d2
             ELSE [d2 EXCEPT !.explored = Append(d2.explored, at),
                             !.instructions = Append(d2.instructions, <<at, instr>>)]

\* the statements after the loop: sort_by_key(|a| a.0), Ok(instructions)
dis_exit(d) ==
  [d EXCEPT !.phase = "done", !.res = "ok",
            !.instructions = SortSeq(d.instructions, LAMBDA a, b : a[1] < b[1])]

\* Images given to the extractor.
DisPrograms ==
  { <<1, R0, 2, 4, R0, R1, 2, 7, 0, 10, 18, 9, R2, 1, 2, 18>>,
                                        \* the function of the test
    <<21, 7, R0, 0, 6, 0>>,             \* Noop; Jt r0 0; Jmp 0: loops
    <<6, 5, 18, 40000, 40000, 18>>,     \* Jmp 5; Ret; two data words; Ret
    <<8, R0, 7, 6, 3, 18, 0, 3, R0, 6, 0>>,
                                        \* Jf r0 7; Jmp 3; Ret; ..; 7: Pop r0; Jmp 0
    <<17, 4, 0, 0, 9, R0, R0, 1, 18>>,  \* Call 4; Halt; ..; 4: Add; Ret
    <<17, 4, 18, 0, 40000>>,            \* Call 4; Ret; ..; 4: no opcode
    <<6, R0, 18>>,                      \* Jmp r0; Ret
    <<21, 21, 40000>>,                  \* Noop; Noop; a word that is no opcode
    <<6, 0>> }                          \* Jmp 0; Halt

DisImages ==
  {load_program_from_mem(Vm_new.memory, p) : p \in DisPrograms}
  \cup {load_program_from_mem(Vm_new.memory, <<6, 32766>>) @@ (32766 :> 21) @@ (32767 :> 21)}

\* entry addresses
DisEntries == {0, 2, 4, 32766, 32768}

InitDis ==
  /\ memory \in DisImages
  /\ registers = Vm_new.registers
  /\ stack = Vm_new.stack
  /\ ip = Vm_new.ip
  /\ pc = Vm_new.pc
  /\ state = Vm_new.state
  /\ output_buffer = Vm_new.output_buffer
  /\ input_buffer = Vm_new.input_buffer
  /\ messages = Vm_new.messages
  /\ traced_opcodes = Vm_new.traced_opcodes
  /\ trace_buffer = Vm_new.trace_buffer
  /\ called_patched_fn = Vm_new.called_patched_fn
  /\ enable_patching = Vm_new.enable_patching
  /\ in_run = FALSE
  /\ outcome = "none"
  /\ lastOp = "load"
  /\ lastArg = <<>>
  /\ twin = NoTwin
  /\ ret = <<>>
  /\ saved_states = NoStates
  /\ breakpoints = {}
  /\ dis = NoDis

\* vm.disassemble_function(starting_ip), up to its loop
DisStart ==
  /\ Idle
  /\ dis.phase = "idle"
  /\ \E starting_ip \in DisEntries :
       /\ dis' = dis_enter(VM, starting_ip)
       /\ lastArg' = <<starting_ip>>
  /\ outcome' = IF dis'.phase = "done" THEN dis'.res ELSE "none"
  /\ lastOp' = "dis_start"
  /\ UNCHANGED vmvars
  /\ UNCHANGED <<in_run, twin, ret, saved_states, breakpoints>>

\* one turn of its loop
DisTurn ==
  /\ dis.phase = "loop"
  /\ dis.queue # <<>>
  /\ dis' = dis_turn(VM, dis)
  /\ outcome' = IF dis'.phase = "done" THEN dis'.res ELSE "none"
  /\ lastOp' = "dis_turn"
  /\ UNCHANGED vmvars
  /\ UNCHANGED <<in_run, lastArg, twin, ret, saved_states, breakpoints>>

\* the queue is empty: the call returns the sorted instructions
DisEnd ==
  /\ dis.phase = "loop"
  /\ dis.queue = <<>>
  /\ dis' = dis_exit(dis)
  /\ ret' = dis'.instructions
  /\ outcome' = "ok"
  /\ lastOp' = "dis_end"
  /\ UNCHANGED vmvars
  /\ UNCHANGED <<in_run, lastArg, twin, saved_states, breakpoints>>

NextDis == DisStart \/ DisTurn \/ DisEnd

SpecDis == InitDis /\ [][NextDis]_vars

\* the call runs on: its loop is not suspended from outside
SpecDisFair == SpecDis /\ WF_vars(DisTurn) /\ WF_vars(DisEnd)

----------------------------------------------------------------------------
\* Tracing: the mask of opcodes step records

\* Vm::set_traced_opcodes
set_traced_opcodes(v, mask) == [v EXCEPT !.traced_opcodes = mask]

\* Masks given to set_traced_opcodes: none, Halt, Call, Call | Ret,
\* Add | Out, Ret | Noop, and the bits of all 22 opcodes.
TraceMasks == {0, 1, 131072, 393216, 524800, 2359296, 4194303}

TracePrograms ==
  { <<9, R0, R1, 4, 19, R0, 0>>,        \* Add r0,r1,4; Out r0; Halt
    <<17, 5, 0, 0, 0, 21, 18>>,         \* Call 5; Halt; ...; Noop; Ret
    <<21, 6, 0>>,                       \* Noop; Jmp 0
    <<21, 3, R0>> }                     \* Noop; Pop r0 on an empty stack

InitTrace ==
  /\ \E p \in TracePrograms : memory = load_program_from_mem(Vm_new.memory, p)
  /\ registers = Vm_new.registers
  /\ stack = Vm_new.stack
  /\ ip = Vm_new.ip
  /\ pc = Vm_new.pc
  /\ state = Vm_new.state
  /\ output_buffer = Vm_new.output_buffer
  /\ input_buffer = Vm_new.input_buffer
  /\ messages = Vm_new.messages
  /\ traced_opcodes = Vm_new.traced_opcodes
  /\ trace_buffer = Vm_new.trace_buffer
  /\ called_patched_fn = Vm_new.called_patched_fn
  /\ enable_patching = Vm_new.enable_patching
  /\ in_run = FALSE
  /\ outcome = "none"
  /\ lastOp = "load"
  /\ lastArg = <<>>
  /\ twin = NoTwin
  /\ ret = <<>>
  /\ saved_states = NoStates
  /\ breakpoints = {}
  /\ dis = NoDis

\* vm.set_traced_opcodes(mask), between two steps
SetTracedOpcodes ==
  /\ Idle
  /\ lastOp # "set_traced_opcodes"
  /\ \E mask \in TraceMasks :
       /\ mask # traced_opcodes
       /\ SetVM(set_traced_opcodes(VM, mask))
       /\ lastArg' = <<mask>>
  /\ outcome' = "ok"
  /\ lastOp' = "set_traced_opcodes"
  /\ UNCHANGED <<in_run, twin, ret, saved_states, breakpoints, dis>>

NextTrace == Step \/ SetTracedOpcodes

SpecTrace == InitTrace /\ [][NextTrace]_vars

----------------------------------------------------------------------------
\* Vm::run as one call, between steps and feeds

\* the loop of run: while self.state == VmState::Running { self.step().unwrap() };
\* "none" when the loop has not ended after MaxPc instructions
RECURSIVE run_loop(_, _)
run_loop(v, oc) ==
  IF v.state # "Running" THEN Ok(v)
  ELSE IF v.pc >= MaxPc THEN [res |-> "none", vm |-> v]
  ELSE LET r == step(v, oc)
       IN IF r.res # "ok" THEN Panic(r.vm) ELSE run_loop(r.vm, oc)

\* Vm::run
run(v, oc) ==
  LET r == run_loop(run_enter(v), oc)
  IN IF r.res = "ok" THEN Ok(run_exit(r.vm)) ELSE r

RunPrograms ==
  { <<20, R0, 19, R0, 0>>,              \* In r0; Out r0; Halt
    <<20, R0, 19, R0, 6, 0>>,           \* In r0; Out r0; Jmp 0
    <<19, 65, 20, R0, 19, 66, 0>>,      \* Out 65; In r0; Out 66; Halt
    <<19, 321, 20, R0, 19, R0, 0>>,     \* Out 321; In r0; Out r0; Halt
    <<19, 65, 19, 40000>>,              \* Out 65; Out(Invalid)
    <<20, R0, 20, R1, 20, R0>> }        \* In r0; In r1; In r0

InitRun ==
  /\ \E p \in RunPrograms : memory = load_program_from_mem(Vm_new.memory, p)
  /\ registers = Vm_new.registers
  /\ stack = Vm_new.stack
  /\ ip = Vm_new.ip
  /\ pc = Vm_new.pc
  /\ state = Vm_new.state
  /\ output_buffer = Vm_new.output_buffer
  /\ input_buffer = Vm_new.input_buffer
  /\ messages = Vm_new.messages
  /\ traced_opcodes = Vm_new.traced_opcodes
  /\ trace_buffer = Vm_new.trace_buffer
  /\ called_patched_fn = Vm_new.called_patched_fn
  /\ enable_patching = Vm_new.enable_patching
  /\ in_run = FALSE
  /\ outcome = "none"
  /\ lastOp = "load"
  /\ lastArg = <<>>
  /\ twin = NoTwin
  /\ ret = <<>>
  /\ saved_states = NoStates
  /\ breakpoints = {}
  /\ dis = NoDis

\* vm.run(), from its first line to its return
Run ==
  /\ Idle
  /\ \E oc \in BOOLEAN :
       LET r == run(VM, oc) IN
         /\ r.res # "none"
         /\ SetVM(r.vm)
         /\ outcome' = r.res
  /\ lastOp' = "run"
  /\ UNCHANGED <<in_run, lastArg, twin, saved_states, breakpoints, ret, dis>>

NextRun == Step \/ Feed \/ Run

SpecRun == InitRun /\ [][NextRun]_vars

----------------------------------------------------------------------------
\* Properties of the engine

\* the transition is a call of step (by the driver, or by run's loop)
Stepped == lastOp' \in {"step", "run_step"}

\* the instruction step would fetch now
AtIp == fetch(VM, ip)

\* step is about to execute an In with a register destination
AtIn == state = "Running" /\ AtIp.res = "ok" /\ AtIp.instr.op = "In"
        /\ AtIp.instr.args[1].k = "Reg"

\* C1: step called while the state is Halted or WaitingForInput returns an
\* error and leaves every field of the Vm (ip, pc, registers, stack, memory,
\* input queue, output buffer, messages, state) as it was.
C1_StepNotRunningFails ==
  [][(lastOp' = "step" /\ state \in {"Halted", "WaitingForInput"})
       => (outcome' = "err" /\ UNCHANGED vmvars)]_vars

\* a refused step on a suspended Vm that has flushed a message
C1_Witness ==
  /\ lastOp = "step" /\ outcome = "err"
  /\ state = "WaitingForInput" /\ messages # <<>>

\* C2 (as claimed): once the state is Halted, no later call (step, feed, run)
\* changes the state, ip, registers, stack or memory.
C2_HaltedAbsorbing ==
  [][state = "Halted"
       => (state' = "Halted" /\ UNCHANGED <<ip, registers, stack, memory>>)]_vars

\* C3: a step that executes In(dst) on an empty input queue appends the
\* output buffer as exactly one new message (an empty buffer too), clears
\* the buffer, sets the state to WaitingForInput, leaves ip at that In and
\* leaves registers, stack and memory unchanged.
C3_InSuspends ==
  [][(Stepped /\ AtIn /\ input_buffer = <<>>)
       => /\ outcome' = "ok"
          /\ messages' = Append(messages, output_buffer)
          /\ output_buffer' = <<>>
          /\ state' = "WaitingForInput"
          /\ ip' = ip
          /\ UNCHANGED <<registers, stack, memory>>]_vars

\* a second suspension, flushing a non-empty buffer after an empty one
C3_Witness ==
  /\ lastOp = "step" /\ outcome = "ok" /\ state = "WaitingForInput"
  /\ Len(messages) = 2 /\ messages[1] = <<>> /\ messages[2] # <<>>

\* C4: feed(line) on a Vm that is WaitingForInput with an empty input queue
\* succeeds, leaves the queue holding the characters of line in order and
\* then one newline, sets the state to Running and changes nothing else.
C4_FeedAccepts ==
  [][(lastOp' = "feed" /\ state = "WaitingForInput" /\ input_buffer = <<>>)
       => /\ outcome' = "ok"
          /\ input_buffer' = lastArg' \o <<NEWLINE>>
          /\ state' = "Running"
          /\ UNCHANGED <<ip, pc, registers, stack, memory, output_buffer, messages,
                         traced_opcodes, trace_buffer, called_patched_fn,
                         enable_patching>>]_vars

\* a two-character line has just been accepted
C4_Witness ==
  /\ lastOp = "feed" /\ outcome = "ok" /\ state = "Running"
  /\ Len(lastArg) = 2 /\ Len(input_buffer) = 3

\* C5: feed(line) on a Vm that is not WaitingForInput, or whose input queue
\* is not empty, returns an error and leaves every field of the Vm unchanged.
C5_FeedRefuses ==
  [][(lastOp' = "feed" /\ (state # "WaitingForInput" \/ input_buffer # <<>>))
       => (outcome' = "err" /\ UNCHANGED vmvars)]_vars

\* a feed refused while characters of the previous line are still queued
C5_Witness ==
  /\ lastOp = "feed" /\ outcome = "err"
  /\ state = "Running" /\ input_buffer # <<>>

C7_WaitingAtIn ==
  state = "WaitingForInput"
    => (input_buffer = <<>> /\ AtIp.res = "ok" /\ AtIp.instr.op = "In")

\* run has returned with the Vm suspended for the second time
C7_Witness ==
  /\ state = "WaitingForInput" /\ lastOp = "run_end" /\ Len(messages) >= 2

\* C8 (as claimed): after every successful step, ip < 32768.
C8_IpInMemory ==
  (lastOp = "step" /\ outcome = "ok") => ip < MEM_SIZE

\* C9 (as claimed): after every successful step of a Vm started with zeroed
\* registers, every register holds a value < 32768.
C9_RegistersFifteenBit ==
  (lastOp = "step" /\ outcome = "ok") => \A r \in 0..7 : registers[r] < 32768

\* C10 (as claimed): a step that fails reports an error to its caller and
\* leaves ip, registers, stack, memory and state as before the call.
C10_FailedStepIsClean ==
  [][(lastOp' = "step" /\ outcome' # "ok")
       => (outcome' = "err" /\ UNCHANGED <<ip, registers, stack, memory, state>>)]_vars

\* step is about to execute the instruction op
AtOp(op) == state = "Running" /\ AtIp.res = "ok" /\ AtIp.instr.op = op

\* the value of the first operand of the instruction at ip
Arg1 == get_value(VM, AtIp.instr.args[1])

\* C11 (as claimed): with patching disabled, a Call at address a pushes a+2
\* and sets ip to its target, for every target value, leaving registers,
\* memory and state unchanged; a Ret that pops an entry sets ip to it.
C11_CallPushesReturn ==
  [][/\ (Stepped /\ AtOp("Call") /\ ~enable_patching /\ Arg1 # None)
          => /\ outcome' = "ok"
             /\ stack' = Append(stack, ip + 2)
             /\ ip' = Arg1
             /\ UNCHANGED <<registers, memory, state>>
     /\ (Stepped /\ AtOp("Ret") /\ stack # <<>>)
          => /\ outcome' = "ok"
             /\ ip' = stack[Len(stack)]
             /\ stack' = SubSeq(stack, 1, Len(stack) - 1)]_vars

\* C12: a Ret executed with an empty stack is no error: it sets the state to
\* Halted and leaves the stack empty and registers and memory unchanged.
C12_RetOnEmptyStackHalts ==
  [][(Stepped /\ AtOp("Ret") /\ stack = <<>>)
       => /\ outcome' = "ok"
          /\ state' = "Halted"
          /\ stack' = <<>>
          /\ UNCHANGED <<registers, memory>>]_vars

\* a Ret has halted a Vm whose register 0 an earlier Set had written
C12_Witness ==
  /\ lastOp = "step" /\ outcome = "ok" /\ state = "Halted"
  /\ stack = <<>> /\ pc = 2 /\ Rd(memory, ip - 1) = 18 /\ registers[0] = 7

\* C14 (as claimed): for the program of the function at 2125, the Vm left by
\* running the Call until its return with patching enabled equals (==) the
\* Vm left by the same run with patching disabled.
C14_PatchedEqualsUnpatched ==
  (/\ lastOp = "run_until_ret" /\ outcome = "ok" /\ enable_patching
   /\ twin.res = "ok" /\ Rd(memory, 1) = 2125)
    => Vm_eq(VM, twin.vm)

\* C16 (as claimed): run_until_ret called with ip at a Call (patching
\* disabled) executes up to and including the Ret matching that Call,
\* whatever the length of the callee: it ends with ip after the Call and the
\* stack as before, and the list it returns holds every executed
\* instruction, the last one being that Ret.
C16_RunsThroughMatchingRet ==
  [][(lastOp' = "run_until_ret" /\ AtOp("Call") /\ ~enable_patching)
       => /\ outcome' = "ok"
          /\ ip' = ip + 2
          /\ stack' = stack
          /\ Len(ret') = pc' - pc
          /\ ret' # <<>> /\ ret'[Len(ret')][2].op = "Ret"]_vars

\* Since the fork the Vm has gone through step (suspending), feed("") and
\* step, and the clone through its one step.
PathsDone ==
  /\ twin.res = "ok"
  /\ lastOp = "step" /\ outcome = "ok" /\ lastArg = <<>>
  /\ pc = twin.vm.pc + 1

\* C15 (as claimed): the two paths end with identical memory, registers, ip,
\* output buffer and input queue, whatever the output buffer held.
C15_PathsAgree ==
  PathsDone
    => /\ memory = twin.vm.memory
       /\ registers = twin.vm.registers
       /\ ip = twin.vm.ip
       /\ output_buffer = twin.vm.output_buffer
       /\ input_buffer = twin.vm.input_buffer

\* C15 (amended): the two paths end with identical memory, registers, ip and
\* (empty) input queue; the suspended path ends with an empty output buffer,
\* what the buffer held being its newest message, while the other path still
\* has it in its output buffer and has flushed no message.
C15_PathsAgreeButOutput ==
  PathsDone
    => /\ memory = twin.vm.memory
       /\ registers = twin.vm.registers
       /\ ip = twin.vm.ip
       /\ input_buffer = <<>> /\ twin.vm.input_buffer = <<>>
       /\ output_buffer = <<>>
       /\ messages = Append(twin.vm.messages, twin.vm.output_buffer)

\* both paths done from a Vm that had written output since its last flush
C15_Witness ==
  /\ PathsDone
  /\ twin.vm.output_buffer # <<>> /\ twin.vm.messages # <<>>
  /\ registers[0] = NEWLINE

----------------------------------------------------------------------------
\* Properties of the codec

\* C17: for every instruction op of the 22 opcodes with in-domain operands,
\* fetch at offset 0 of assemble(op) returns op, and size(op) is the number
\* of words of assemble(op).
C17_FetchInvertsAssemble ==
  /\ lastOp \in {"assemble", "fetch"}
       => Opcode_size(lastArg.ops[1]) = Len(ret[1])
  /\ lastOp = "fetch"
       => ret[2] = [res |-> "ok", instr |-> lastArg.ops[1]]

\* Add(Reg(7), 32767, Reg(0)) assembled to four words and fetched back
C17_Witness ==
  /\ lastOp = "fetch"
  /\ lastArg.ops[1] = Op("Add", <<Reg(7), Num(32767), Reg(0)>>)
  /\ ret[1] = <<9, 32775, 32767, 32768>>
  /\ ret[2].res = "ok"

\* the address disassemble gives the i-th instruction of ops, from addr
RECURSIVE AddrOf(_, _, _)
AddrOf(ops, addr, i) ==
  IF i = 1 THEN addr ELSE AddrOf(ops, addr, i - 1) + Opcode_size(ops[i - 1])

\* C18: for every sequence ops of in-domain instructions and every base
\* address addr, disassembling assemble_vec(ops) from addr returns exactly
\* ops in order, the first at addr and each next one at the previous address
\* plus the previous instruction's size.
C18_DisassembleInvertsAssembleVec ==
  lastOp = "disassemble"
    => /\ ret[2].res = "ok"
       /\ Len(ret[2].instructions) = Len(lastArg.ops)
       /\ \A i \in 1..Len(lastArg.ops) :
            /\ ret[2].instructions[i][2] = lastArg.ops[i]
            /\ ret[2].instructions[i][1] = AddrOf(lastArg.ops, lastArg.addr, i)

\* Set, Add, Ret disassembled from 2125: the Ret is at 2132
C18_Witness ==
  /\ lastOp = "disassemble"
  /\ lastArg.addr = 2125
  /\ Len(lastArg.ops) = 3
  /\ ret[2].res = "ok"
  /\ ret[2].instructions[3] = <<2132, Op("Ret", <<>>)>>

\* C19: for every 16-bit word w, Val::new(w) is Num(w) when w < 32768,
\* Reg(w - 32768) when 32768 <= w < 32776 and Invalid otherwise, and
\* as_binary of the decoded value is w whenever that value is not Invalid.
C19_ValRoundTrip ==
  /\ lastOp \in {"Val::new", "as_binary"}
       => ret[1] = (IF lastArg < 32768 THEN Num(lastArg)
                    ELSE IF lastArg < 32776 THEN Reg(lastArg - 32768)
                    ELSE Invalid)
  /\ (lastOp = "as_binary" /\ ret[1] # Invalid) => ret[2] = lastArg

\* the word of the last register decoded and encoded back
C19_Witness ==
  /\ lastOp = "as_binary"
  /\ lastArg = 32775 /\ ret[1] = Reg(7) /\ ret[2] = 32775

----------------------------------------------------------------------------
\* Properties of the arithmetic

\* the values of the second and third operand of the instruction at ip
Arg2 == get_value(VM, AtIp.instr.args[2])
Arg3 == get_value(VM, AtIp.instr.args[3])

\* the register the first operand of the instruction at ip names
Dst == get_register(AtIp.instr.args[1])

\* C21: for operand values b, c in 0..32767, Add writes (b + c) mod 32768
\* to its destination register and Mult writes (b * c) mod 32768: the
\* 16-bit wrapping of the product does not change the result.
C21_AddMultModulo ==
  [][/\ (Stepped /\ AtOp("Add") /\ Dst # None
          /\ Arg2 \in 0..32767 /\ Arg3 \in 0..32767)
          => /\ outcome' = "ok"
             /\ registers' = [registers EXCEPT ![Dst] = (Arg2 + Arg3) % 32768]
     /\ (Stepped /\ AtOp("Mult") /\ Dst # None
          /\ Arg2 \in 0..32767 /\ Arg3 \in 0..32767)
          => /\ outcome' = "ok"
             /\ registers' = [registers EXCEPT ![Dst] = (Arg2 * Arg3) % 32768]]_vars

\* Mult(r2, 32767, 3): the product 98301 passes 65536 and leaves 32765
C21_Witness ==
  /\ lastOp = "step" /\ outcome = "ok" /\ pc = 1
  /\ Rd(memory, 0) = 10 /\ Rd(memory, 2) = 32767 /\ Rd(memory, 3) = 3
  /\ registers[2] = 32765

\* C22: for every x in 0..32767, Not(dst, Reg(r)) with x in register r
\* writes 32767 - x to dst.
C22_NotIsFifteenBitComplement ==
  [][(Stepped /\ AtOp("Not") /\ Dst # None
      /\ AtIp.instr.args[2].k = "Reg" /\ Arg2 \in 0..32767)
       => /\ outcome' = "ok"
          /\ registers' = [registers EXCEPT ![Dst] = 32767 - Arg2]]_vars

\* Not(r2, r0) with 255 in r0
C22_Witness ==
  /\ lastOp = "step" /\ outcome = "ok" /\ pc = 1
  /\ Rd(memory, 0) = 14 /\ Rd(memory, 2) = R0
  /\ registers[0] = 255 /\ registers[2] = 32512

\* C23: a Jmp whose target holds a word that is no opcode tag executes
\* (ip becomes the target, the state stays Running); the step after it
\* raises the decode error and leaves ip and state unchanged.
C23_JmpToBadTagFailsAtNextStep ==
  [][/\ (Stepped /\ AtOp("Jmp") /\ Arg1 # None /\ Rd(memory, Arg1) > 21)
          => /\ outcome' = "ok"
             /\ ip' = Arg1
             /\ state' = "Running"
     /\ (Stepped /\ state = "Running" /\ ip < MEM_SIZE /\ Rd(memory, ip) > 21)
          => /\ outcome' # "ok"
             /\ UNCHANGED <<ip, state, pc>>]_vars

\* Jmp 3 was executed, and the step at the word 40000 has failed
C23_Witness ==
  /\ Rd(memory, 0) = 6 /\ Rd(memory, 1) = 3 /\ Rd(memory, 3) = 40000
  /\ pc = 1 /\ ip = 3 /\ state = "Running"
  /\ lastOp = "step" /\ outcome = "err"

\* the image of Call 5; Halt; 0; 0; 0; Noop; Ret
CallRetImage == memory = load_program_from_mem(Vm_new.memory, <<17, 5, 0, 0, 0, 21, 18>>)

\* C24: the program [17, 5, 0, 0, 0, 21, 18] started at ip 0 with an empty
\* stack executes Call 5, Noop at 5, Ret at 6 and Halt at 2, in that order
\* and nothing else, and is then Halted with an empty stack; a run of it
\* ends there.
C24_CallNoopRetHalt ==
  [][/\ (CallRetImage /\ Stepped /\ pc < 4)
          => /\ outcome' = "ok"
             /\ pc' = pc + 1
             /\ <<pc, ip, AtIp.instr.op, stack, ip', stack'>> \in
                  { <<0, 0, "Call", <<>>,  5, <<2>>>>,
                    <<1, 5, "Noop", <<2>>, 6, <<2>>>>,
                    <<2, 6, "Ret",  <<2>>, 2, <<>>>>,
                    <<3, 2, "Halt", <<>>,  3, <<>>>> }
             /\ state' = IF pc = 3 THEN "Halted" ELSE "Running"
     /\ (CallRetImage /\ lastOp' = "run_end" /\ pc <= 4)
          => pc = 4 /\ state' = "Halted" /\ stack' = <<>> /\ ip' = 3]_vars

\* a single run has gone through the four instructions and ended
C24_Witness ==
  /\ CallRetImage
  /\ lastOp = "run_end" /\ pc = 4 /\ state = "Halted" /\ stack = <<>> /\ ip = 3

\* the image of In r0; Out r0; Halt
EchoImage == memory = load_program_from_mem(Vm_new.memory, <<20, R0, 19, R0, 0>>)

\* C25 (as claimed): in the program [20, 32768, 19, 32768, 0], once 'A' has
\* been read and emitted, the next instruction executed is a second In, which
\* consumes the newline left by feed.
C25_EchoReadsNewline ==
  [][(EchoImage /\ Stepped /\ state = "Running"
      /\ output_buffer = <<65>> /\ input_buffer = <<NEWLINE>>)
       => /\ input_buffer' = <<>>
          /\ registers'[0] = NEWLINE]_vars

\* C25 (amended): the program [20, 32768, 19, 32768, 0] suspends at its In
\* while the input is empty, flushing the output buffer (empty at first) as a
\* message and staying at address 0; a successful feed leaves the line and a
\* newline queued with the Vm Running at 0; then In consumes the first
\* character, Out emits it, and Halt at 4 stops the Vm with the rest of the
\* input, the newline included, still queued.
C25_EchoOnceThenHalt ==
  [][/\ (EchoImage /\ Stepped /\ state = "Running" /\ ip <= 4)
          => /\ outcome' = "ok"
             /\ (ip = 0 /\ input_buffer = <<>>)
                  => /\ state' = "WaitingForInput" /\ ip' = 0
                     /\ messages' = Append(messages, output_buffer)
                     /\ pc = 0 => messages' = << <<>> >>
             /\ (ip = 0 /\ input_buffer # <<>>)
                  => /\ state' = "Running" /\ ip' = 2
                     /\ registers'[0] = Head(input_buffer) % U16
                     /\ input_buffer' = Tail(input_buffer)
             /\ ip = 2
                  => /\ state' = "Running" /\ ip' = 4
                     /\ output_buffer' = Append(output_buffer, registers[0] % 256)
                     /\ UNCHANGED input_buffer
             /\ ip = 4
                  => /\ state' = "Halted"
                     /\ UNCHANGED <<input_buffer, output_buffer, registers>>
             /\ ip \in {0, 2, 4}
     /\ (EchoImage /\ lastOp' = "feed" /\ outcome' = "ok")
          => /\ state' = "Running" /\ ip' = 0
             /\ input_buffer' = lastArg' \o <<NEWLINE>>]_vars

\* fed "A": 'A' was read and emitted, the Vm is Halted, the newline is queued
C25_Witness ==
  /\ EchoImage
  /\ lastArg = <<65>> /\ lastOp = "step" /\ pc = 4
  /\ state = "Halted" /\ ip = 5
  /\ registers[0] = 65 /\ output_buffer = <<65>> /\ input_buffer = <<NEWLINE>>
  /\ messages = << <<>> >>

\* the image of Add r0,r1,4; Out r0; Halt
AddOutImage == memory = load_program_from_mem(Vm_new.memory, <<9, R0, R1, 4, 19, R0, 0>>)

\* C26 (as claimed): the message a halted run appends holds the characters
\* emitted since the previous flush, so in Add r0,r1,4; Out r0; Halt, which
\* emits the one character 4 once, at most one message is not empty and a
\* flush leaves nothing behind to be flushed again.
C26_HaltFlushesOnce ==
  AddOutImage => Cardinality({i \in DOMAIN messages : messages[i] # <<>>}) <= 1

\* C27 (as claimed): two Vms that agree on memory, registers, ip, output
\* and input compare equal, whatever their executed-instruction counters
\* (and trace logs) are.
C27_EqualityIgnoresPc ==
  (/\ twin.res # "none"
   /\ memory = twin.vm.memory
   /\ registers = twin.vm.registers
   /\ ip = twin.vm.ip
   /\ output_buffer = twin.vm.output_buffer
   /\ input_buffer = twin.vm.input_buffer)
    => Vm_eq(VM, twin.vm)

----------------------------------------------------------------------------
\* Properties of the debugger's snapshots

\* C28: save_state(name) stores the live Vm as it is; step, feed and run
\* (and load_state) leave every stored snapshot unchanged; load_state(name)
\* makes the live Vm equal to the snapshot in every field (memory, registers,
\* stack, ip, state, input, output, messages among them) and keeps the
\* snapshot, so that it can be repeated; load_state of an unknown name leaves
\* the live Vm unchanged.
C28_SnapshotsPersist ==
  [][/\ lastOp' = "save_state"
          => /\ saved_states'[lastArg'] = VM
             /\ VM' = VM
     /\ lastOp' \notin {"save_state", "remove_state"}
          => UNCHANGED saved_states
     /\ (lastOp' = "load_state" /\ lastArg' \in DOMAIN saved_states)
          => /\ VM' = saved_states[lastArg']
             /\ outcome' = "ok"
     /\ (lastOp' = "load_state" /\ lastArg' \notin DOMAIN saved_states)
          => /\ VM' = VM
             /\ outcome' = "not_found"]_vars

\* the echo program, saved while suspended at its In, has been restored
\* under that name
C28_Witness ==
  /\ EchoImage
  /\ lastOp = "load_state" /\ outcome = "ok" /\ lastArg = <<97>>
  /\ lastArg \in DOMAIN saved_states
  /\ VM = saved_states[lastArg]
  /\ state = "WaitingForInput" /\ pc = 1 /\ messages = << <<>> >>

----------------------------------------------------------------------------
\* Properties of the breakpoints

\* C29: a step taken with the state Running and ip in the breakpoint set
\* executes nothing (ip, registers, stack, memory and the instruction counter
\* unchanged), moves the state to AtBreakpoint and returns an error; setting
\* a breakpoint that is set, or unsetting one that is not, changes nothing,
\* so that doing either twice is doing it once.
C29_StepStopsAtBreakpoint ==
  [][/\ (Stepped /\ state = "Running" /\ ip \in breakpoints)
          => /\ outcome' = "err"
             /\ state' = "AtBreakpoint"
             /\ UNCHANGED <<ip, registers, stack, memory, pc, output_buffer>>
     /\ lastOp' = "set_breakpoint"
          => /\ breakpoints' = breakpoints \cup {lastArg'[1]}
             /\ set_breakpoint(breakpoints', lastArg'[1]) = breakpoints'
             /\ UNCHANGED vmvars
     /\ lastOp' = "unset_breakpoint"
          => /\ breakpoints' = breakpoints \ {lastArg'[1]}
             /\ unset_breakpoint(breakpoints', lastArg'[1]) = breakpoints'
             /\ UNCHANGED vmvars]_vars

\* Call 5 was executed and the step at the Noop, a breakpoint, has stopped
C29_Witness ==
  /\ CallRetImage
  /\ lastOp = "step" /\ outcome = "err" /\ state = "AtBreakpoint"
  /\ ip = 5 /\ ip \in breakpoints /\ pc = 1 /\ stack = <<2>>

----------------------------------------------------------------------------
\* Properties of patching

\* C30 (as claimed): for each of the 22 opcodes op and every address addr
\* with addr + size(op) <= 32768, patch(op, addr) succeeds, the words of
\* memory from addr on decode to op afterwards, every other cell of the
\* memory and the registers, stack, ip and state are unchanged.
C30_PatchWritesOpcode ==
  [][lastOp' = "patch"
      => LET op == lastArg'[1]
             addr == lastArg'[2]
         IN /\ outcome' = "ok"
            /\ fetch(VM', addr) = [res |-> "ok", instr |-> op]
            /\ \A a \in (DOMAIN memory \cup DOMAIN memory') \ (addr..(addr + size(op) - 1)) :
                  Rd(memory', a) = Rd(memory, a)
            /\ UNCHANGED <<registers, stack, ip, state>>]_vars

\* C31 (as claimed): a patch that is carried out prints the size warning
\* exactly when the instruction decoded at addr before the patch has a size
\* in words other than size(op).
C31_WarnsIffSizesDiffer ==
  [][(lastOp' = "patch" /\ outcome' = "ok")
      => LET op == lastArg'[1]
             old == fetch(VM, lastArg'[2])
         IN (ret' = <<"WARNING: patched opcode of different size">>)
              <=> (old.res = "ok" /\ size(old.instr) # size(op))]_vars

----------------------------------------------------------------------------
\* Properties of the function extractor

\* the addresses an instruction at a leads to: its fall-through unless it is
\* Halt or Ret, and the immediate target of Jmp, Jt and Jf
Leads(a) ==
  LET f == fetch(VM, a) IN
    IF f.res # "ok" THEN {}
    ELSE (IF f.instr.op \in {"Halt", "Ret"} THEN {} ELSE {a + size(f.instr)})
         \cup (IF f.instr.op = "Jmp" /\ f.instr.args[1].k = "Num"
               THEN {f.instr.args[1].v} ELSE {})
         \cup (IF f.instr.op \in {"Jt", "Jf"} /\ f.instr.args[2].k = "Num"
               THEN {f.instr.args[2].v} ELSE {})

\* the smallest set that holds S and is closed under Leads
RECURSIVE Closed(_)
Closed(S) ==
  LET T == S \cup UNION {Leads(a) : a \in S}
  IN IF T = S THEN S ELSE Closed(T)

DisDone == dis.phase = "done"

\* C32: disassemble_function(entry) succeeds exactly when every address of
\* the smallest set that holds entry and is closed under fall-through (of
\* all but Halt and Ret) and the immediate targets of Jmp, Jt and Jf decodes;
\* it then returns the instructions at exactly these addresses, by strictly
\* increasing address.  Targets of Call and register targets are not in it.
C32_ReturnsClosure ==
  DisDone
    => LET C == Closed({dis.starting_ip})
           r == dis.instructions
       IN /\ dis.res = "ok" <=> \A a \in C : fetch(VM, a).res = "ok"
          /\ dis.res = "ok"
               => /\ ret = r
                  /\ {r[i][1] : i \in 1..Len(r)} = C
                  /\ \A i \in 1..Len(r) : r[i][2] = fetch(VM, r[i][1]).instr
                  /\ \A i \in 1..(Len(r) - 1) : r[i][1] < r[i + 1][1]

\* Jf r0 7; Jmp 3; Ret; ..; Pop r0; Jmp 0 from 0: six instructions, found in
\* the order 0, 7, 3, ..
C32_Witness ==
  /\ DisDone /\ dis.res = "ok" /\ dis.starting_ip = 0
  /\ Rd(memory, 0) = 8
  /\ Len(ret) = 6
  /\ dis.explored[2] = 7

\* C33 (as claimed): a function the extractor returns is contiguous, each
\* instruction lying right after the one before it.
C33_ReturnedFunctionContiguous ==
  (DisDone /\ dis.res = "ok")
    => \A i \in 1..(Len(ret) - 1) : ret[i + 1][1] = ret[i][1] + size(ret[i][2])

\* C40: a call of disassemble_function comes to its end, returning, failing
\* on a word that does not decode, or panicking on an address outside the
\* memory; no address is expanded twice.
C40_ExtractorTerminates ==
  /\ [](\A i, j \in 1..Len(dis.explored) :
          dis.explored[i] = dis.explored[j] => i = j)
  /\ (dis.phase = "loop") ~> DisDone

\* the loop Noop; Jt r0 0; Jmp 0 was gone through and the call has returned
C40_Witness ==
  /\ DisDone /\ dis.res = "ok" /\ dis.starting_ip = 0
  /\ Rd(memory, 0) = 21 /\ Rd(memory, 4) = 6
  /\ Len(dis.explored) = 4

----------------------------------------------------------------------------
\* Properties of the trace

\* the bit of the opcode at ip is set in the trace mask
MaskBitSet == (traced_opcodes \div (2 ^ tag(AtIp.instr))) % 2 = 1

\* C34: a step that fetches an instruction appends the pair of its address
\* and the instruction to the trace log when the bit of its opcode is set in
\* the mask of that moment, and leaves the log as it is otherwise; nothing
\* else changes the log, so that it holds the traced instructions in the
\* order of execution, and stays empty under the mask 0.
C34_TraceFollowsMask ==
  [][/\ (Stepped /\ state = "Running" /\ AtIp.res = "ok")
          => trace_buffer' = IF MaskBitSet
                             THEN Append(trace_buffer, <<ip, AtIp.instr>>)
                             ELSE trace_buffer
     /\ ~(Stepped /\ state = "Running" /\ AtIp.res = "ok")
          => UNCHANGED trace_buffer
     /\ traced_opcodes = 0 => trace_buffer' = trace_buffer]_vars

\* Call 5; Noop; Ret; Halt executed with Call and Ret traced
C34_Witness ==
  /\ CallRetImage /\ pc = 4 /\ state = "Halted"
  /\ Len(trace_buffer) = 2
  /\ trace_buffer[1] = <<0, Op("Call", <<Num(5)>>)>>
  /\ trace_buffer[2] = <<6, Op("Ret", <<>>)>>

----------------------------------------------------------------------------
\* Properties of run_until_ret

\* the Vm is at a Ret, or at a Push followed by a Ret: the first Ret comes
\* before any Call
RetBeforeCall ==
  \/ AtOp("Ret")
  \/ AtOp("Push") /\ fetch(VM, ip + 2).res = "ok" /\ fetch(VM, ip + 2).instr.op = "Ret"

\* C35 (as claimed): run_until_ret called where a Ret is reached before any
\* Call was counted returns an error, and executes nothing past that Ret.
C35_ImbalanceIsAnError ==
  [][(lastOp = "load" /\ lastOp' = "run_until_ret" /\ RetBeforeCall)
       => /\ outcome' = "err"
          /\ pc' <= pc + 2]_vars

----------------------------------------------------------------------------
\* Properties of the native stand-ins for called functions

\* the targets a Call looks up when patching is enabled
PatchedTargets == {3, 2125, 6027}

\* C36 (as claimed): with patching enabled, a Call to 3, 2125 or 6027
\* succeeds, pushes the return address on the stack and leaves ip at the
\* instruction after the Call, and for target 3 register 0 becomes 20; a
\* Call to any other target pushes the return address and jumps, as with
\* patching disabled.
C36_PatchedCallPushesReturn ==
  [][(Stepped /\ AtOp("Call") /\ enable_patching /\ Arg1 # None)
       => /\ outcome' = "ok"
          /\ stack' = Append(stack, ip + 2)
          /\ IF Arg1 \in PatchedTargets
             THEN /\ ip' = ip + 2
                  /\ (Arg1 = 3 => registers' = [registers EXCEPT ![0] = 20])
             ELSE /\ ip' = Arg1
                  /\ UNCHANGED <<registers, memory, state>>]_vars

----------------------------------------------------------------------------
\* Properties of a suspended Vm and of its messages

\* C37 (as claimed): run or step called on a Vm in WaitingForInput (no feed
\* since it suspended) leaves state, ip, registers, stack, memory, the input
\* queue and the list of messages unchanged.
C37_WaitingOnlyLeftByFeed ==
  [][(state = "WaitingForInput" /\ lastOp' \in {"run", "step"})
       => UNCHANGED <<state, ip, registers, stack, memory, input_buffer,
                      messages>>]_vars

----------------------------------------------------------------------------
\* What a step leaves alone

\* the cells in which two memories differ
Differ(m1, m2) ==
  {x \in (DOMAIN m1) \cup (DOMAIN m2) : Rd(m1, x) # Rd(m2, x)}

\* C38: with patching disabled, a successful step changes memory only when
\* the instruction is Wmem, and then at most the addressed cell; it appends
\* exactly one element to the stack for Push and Call, removes exactly the
\* top element for Pop and Ret on a non-empty stack, and leaves the stack
\* unchanged for every other instruction.
C38_StepFrame ==
  [][(Stepped /\ state = "Running" /\ outcome' = "ok" /\ ~enable_patching)
       => /\ IF AtIp.instr.op = "Wmem"
             THEN Differ(memory, memory') \subseteq {Arg1}
             ELSE memory' = memory
          /\ IF AtIp.instr.op \in {"Push", "Call"}
             THEN /\ Len(stack') = Len(stack) + 1
                  /\ SubSeq(stack', 1, Len(stack)) = stack
             ELSE IF AtIp.instr.op \in {"Pop", "Ret"} /\ stack # <<>>
             THEN stack' = SubSeq(stack, 1, Len(stack) - 1)
             ELSE stack' = stack]_vars

\* Wmem(0, 21); Push(Reg(0)) executed: cell 0 rewritten, the cells after it
\* as loaded, one element on the stack
C38_Witness ==
  /\ lastOp = "step" /\ outcome = "ok" /\ ~enable_patching /\ pc = 2
  /\ Rd(memory, 0) = 21 /\ Rd(memory, 1) = 0 /\ Rd(memory, 2) = 21
  /\ Rd(memory, 3) = 2 /\ stack = <<0>>

----------------------------------------------------------------------------
\* Properties of the messages

\* the strings of a list, one after the other
RECURSIVE Concat(_)
Concat(msgs) ==
  IF msgs = <<>> THEN <<>> ELSE Head(msgs) \o Concat(Tail(msgs))

\* everything the Vm has put out: its messages, then its output buffer
Emitted == Concat(messages) \o output_buffer

\* C39: a step or a feed never modifies or removes a message (the list only
\* grows at its end), and while the Vm has not halted the messages followed
\* by the output buffer grow by exactly the low 8 bits of the operand of
\* each Out executed, and by nothing else.
C39_MessagesAppendOnly ==
  [][(lastOp' \in {"step", "feed"})
       => /\ Len(messages') >= Len(messages)
          /\ SubSeq(messages', 1, Len(messages)) = messages
          /\ (state # "Halted" /\ outcome' # "panic")
               => Emitted' = IF lastOp' = "step" /\ outcome' = "ok" /\ AtOp("Out")
                             THEN Append(Emitted, Arg1 % 256)
                             ELSE Emitted]_vars

\* Out 321; In r0; Out r0 with the line "A" fed: one message "A" flushed at
\* the In, and the echoed "A" in the output buffer
C39_Witness ==
  /\ lastOp = "step" /\ outcome = "ok" /\ state = "Running"
  /\ Rd(memory, 1) = 321
  /\ messages = <<<<65>>>> /\ output_buffer = <<65>>
  /\ input_buffer = <<NEWLINE>>

====
